---------------------------- MODULE Spec2Model ----------------------------
(***************************************************************************)
(* AiPinyin: the keystroke pipeline of the input method (keyboard hook,    *)
(* key-processing threads, candidate refresh, asynchronous neural jobs),   *)
(* the user learning store and the syllable segmenter.                     *)
(*                                                                         *)
(* Text is modelled as a sequence of one-character strings: a pinyin       *)
(* buffer is a sequence of letters, a word a sequence of Chinese           *)
(* characters (written as ASCII tokens).  Len is chars().count().          *)
(***************************************************************************)
EXTENDS Integers, Sequences, FiniteSets, TLC

(***************************************************************************)
(* Bounds of the model.                                                    *)
(***************************************************************************)
\* longest buffer handed to the segmenter in SpecSeg
MaxSegLen == 5

\* letters the segmenter inputs of SpecSeg are built from
SegLetters == {"x", "i", "a", "n", "g"}

\* further buffers handed to the segmenter: longer than the longest syllable,
\* and runs of vowels that are syllables alone and in pairs
SegMoreInputs ==
    { <<"z","h","u","a","n","g","a","n">>,
      <<"x","i","a","n","g","x","i">>,
      <<"f","a","n","g","a","n">>,
      <<"n","g","z","h","u","a","n","g">>,
      <<"a","o">>,
      <<"a","o","e">>,
      <<"a","o","a","o","a","o">>,
      <<"a","o","a","o","a","o","a","o">> }

(***************************************************************************)
(* Generic helpers.                                                        *)
(***************************************************************************)
Min2(a, b) == IF a < b THEN a ELSE b

SetMax(S) == CHOOSE x \in S : \A y \in S : y <= x

Range(f) == {f[i] : i \in DOMAIN f}

RECURSIVE Concat(_)
\* join(""): concatenation of a sequence of strings
Concat(ss) == IF ss = <<>> THEN <<>> ELSE Head(ss) \o Concat(Tail(ss))

SeqsUpTo(S, n) == UNION {[1..k -> S] : k \in 0..n}

(***************************************************************************)
(* u32 weights.  A u32 is the pair <<high, low>> of its 16-bit halves, so    *)
(* that values up to 2^32 - 1 and the overflow of an addition are exact.    *)
(***************************************************************************)
\* the u32 of a number below 2^31
U32(n) == << n \div 65536, n % 65536 >>

U32_MAX == << 65535, 65535 >>

\* a >= b on u32
U32Geq(a, b) == a[1] > b[1] \/ (a[1] = b[1] /\ a[2] >= b[2])

\* the sum of two u32 as the pair <<carry out of the high half, low half>>
U32Sum(a, b) ==
    << a[1] + b[1] + ((a[2] + b[2]) \div 65536), (a[2] + b[2]) % 65536 >>

\* an addition that wraps around at 2^32
wrapping_sum(s) == << s[1] % 65536, s[2] >>

\* u32::saturating_add, from the sum of the halves
saturating_sum(s) == IF s[1] > 65535 THEN U32_MAX ELSE s

saturating_add(a, b) == saturating_sum(U32Sum(a, b))

(***************************************************************************)
(* pinyin.rs: the table of valid syllables and the greedy segmenter.       *)
(***************************************************************************)
VALID_SYLLABLES == {
    <<"a">>, <<"o">>, <<"e">>, <<"a","i">>, <<"e","i">>, <<"a","o">>, <<"o","u">>, <<"a","n">>,
    <<"e","n">>, <<"a","n","g">>, <<"e","n","g">>, <<"e","r">>, <<"b","a">>, <<"b","o">>,
    <<"b","i">>, <<"b","u">>, <<"b","a","i">>, <<"b","e","i">>, <<"b","a","o">>,
    <<"b","a","n">>, <<"b","e","n">>, <<"b","a","n","g">>, <<"b","e","n","g">>,
    <<"b","i","e">>, <<"b","i","a","o">>, <<"b","i","a","n">>, <<"b","i","n">>,
    <<"b","i","n","g">>, <<"p","a">>, <<"p","o">>, <<"p","i">>, <<"p","u">>, <<"p","a","i">>,
    <<"p","e","i">>, <<"p","a","o">>, <<"p","o","u">>, <<"p","a","n">>, <<"p","e","n">>,
    <<"p","a","n","g">>, <<"p","e","n","g">>, <<"p","i","e">>, <<"p","i","a","o">>,
    <<"p","i","a","n">>, <<"p","i","n">>, <<"p","i","n","g">>, <<"m","a">>, <<"m","o">>,
    <<"m","e">>, <<"m","i">>, <<"m","u">>, <<"m","a","i">>, <<"m","e","i">>, <<"m","a","o">>,
    <<"m","o","u">>, <<"m","a","n">>, <<"m","e","n">>, <<"m","a","n","g">>,
    <<"m","e","n","g">>, <<"m","i","e">>, <<"m","i","a","o">>, <<"m","i","u">>,
    <<"m","i","a","n">>, <<"m","i","n">>, <<"m","i","n","g">>, <<"f","a">>, <<"f","o">>,
    <<"f","u">>, <<"f","e","i">>, <<"f","o","u">>, <<"f","a","n">>, <<"f","e","n">>,
    <<"f","a","n","g">>, <<"f","e","n","g">>, <<"d","a">>, <<"d","e">>, <<"d","i">>,
    <<"d","u">>, <<"d","a","i">>, <<"d","e","i">>, <<"d","a","o">>, <<"d","o","u">>,
    <<"d","a","n">>, <<"d","e","n">>, <<"d","a","n","g">>, <<"d","e","n","g">>,
    <<"d","o","n","g">>, <<"d","i","e">>, <<"d","i","a","o">>, <<"d","i","u">>,
    <<"d","i","a","n">>, <<"d","i","n","g">>, <<"d","u","o">>, <<"d","u","i">>,
    <<"d","u","a","n">>, <<"d","u","n">>, <<"t","a">>, <<"t","e">>, <<"t","i">>, <<"t","u">>,
    <<"t","a","i">>, <<"t","a","o">>, <<"t","o","u">>, <<"t","a","n">>, <<"t","a","n","g">>,
    <<"t","e","n","g">>, <<"t","o","n","g">>, <<"t","i","e">>, <<"t","i","a","o">>,
    <<"t","i","a","n">>, <<"t","i","n","g">>, <<"t","u","o">>, <<"t","u","i">>,
    <<"t","u","a","n">>, <<"t","u","n">>, <<"n","a">>, <<"n","e">>, <<"n","i">>, <<"n","u">>,
    <<"n","v">>, <<"n","a","i">>, <<"n","e","i">>, <<"n","a","o">>, <<"n","o","u">>,
    <<"n","a","n">>, <<"n","e","n">>, <<"n","a","n","g">>, <<"n","e","n","g">>,
    <<"n","o","n","g">>, <<"n","i","e">>, <<"n","i","a","o">>, <<"n","i","u">>,
    <<"n","i","a","n">>, <<"n","i","n">>, <<"n","i","n","g">>, <<"n","u","o">>,
    <<"n","u","a","n">>, <<"n","v","e">>, <<"l","a">>, <<"l","e">>, <<"l","i">>, <<"l","u">>,
    <<"l","v">>, <<"l","a","i">>, <<"l","e","i">>, <<"l","a","o">>, <<"l","o","u">>,
    <<"l","a","n">>, <<"l","a","n","g">>, <<"l","e","n","g">>, <<"l","o","n","g">>,
    <<"l","i","e">>, <<"l","i","a","o">>, <<"l","i","u">>, <<"l","i","a","n">>,
    <<"l","i","n">>, <<"l","i","n","g">>, <<"l","u","o">>, <<"l","u","a","n">>,
    <<"l","u","n">>, <<"l","v","e">>, <<"g","a">>, <<"g","e">>, <<"g","u">>, <<"g","a","i">>,
    <<"g","e","i">>, <<"g","a","o">>, <<"g","o","u">>, <<"g","a","n">>, <<"g","e","n">>,
    <<"g","a","n","g">>, <<"g","e","n","g">>, <<"g","o","n","g">>, <<"g","u","a">>,
    <<"g","u","a","i">>, <<"g","u","a","n">>, <<"g","u","a","n","g">>, <<"g","u","i">>,
    <<"g","u","n">>, <<"g","u","o">>, <<"k","a">>, <<"k","e">>, <<"k","u">>, <<"k","a","i">>,
    <<"k","e","i">>, <<"k","a","o">>, <<"k","o","u">>, <<"k","a","n">>, <<"k","e","n">>,
    <<"k","a","n","g">>, <<"k","e","n","g">>, <<"k","o","n","g">>, <<"k","u","a">>,
    <<"k","u","a","i">>, <<"k","u","a","n">>, <<"k","u","a","n","g">>, <<"k","u","i">>,
    <<"k","u","n">>, <<"k","u","o">>, <<"h","a">>, <<"h","e">>, <<"h","u">>, <<"h","a","i">>,
    <<"h","e","i">>, <<"h","a","o">>, <<"h","o","u">>, <<"h","a","n">>, <<"h","e","n">>,
    <<"h","a","n","g">>, <<"h","e","n","g">>, <<"h","o","n","g">>, <<"h","u","a">>,
    <<"h","u","a","i">>, <<"h","u","a","n">>, <<"h","u","a","n","g">>, <<"h","u","i">>,
    <<"h","u","n">>, <<"h","u","o">>, <<"j","i">>, <<"j","u">>, <<"j","i","a">>,
    <<"j","i","e">>, <<"j","i","a","o">>, <<"j","i","u">>, <<"j","i","a","n">>,
    <<"j","i","n">>, <<"j","i","a","n","g">>, <<"j","i","n","g">>, <<"j","i","o","n","g">>,
    <<"j","u","a","n">>, <<"j","u","n">>, <<"j","u","e">>, <<"q","i">>, <<"q","u">>,
    <<"q","i","a">>, <<"q","i","e">>, <<"q","i","a","o">>, <<"q","i","u">>,
    <<"q","i","a","n">>, <<"q","i","n">>, <<"q","i","a","n","g">>, <<"q","i","n","g">>,
    <<"q","i","o","n","g">>, <<"q","u","a","n">>, <<"q","u","n">>, <<"q","u","e">>,
    <<"x","i">>, <<"x","u">>, <<"x","i","a">>, <<"x","i","e">>, <<"x","i","a","o">>,
    <<"x","i","u">>, <<"x","i","a","n">>, <<"x","i","n">>, <<"x","i","a","n","g">>,
    <<"x","i","n","g">>, <<"x","i","o","n","g">>, <<"x","u","a","n">>, <<"x","u","n">>,
    <<"x","u","e">>, <<"z","h","a">>, <<"z","h","e">>, <<"z","h","i">>, <<"z","h","u">>,
    <<"z","h","a","i">>, <<"z","h","e","i">>, <<"z","h","a","o">>, <<"z","h","o","u">>,
    <<"z","h","a","n">>, <<"z","h","e","n">>, <<"z","h","a","n","g">>, <<"z","h","e","n","g">>,
    <<"z","h","o","n","g">>, <<"z","h","u","a">>, <<"z","h","u","a","i">>,
    <<"z","h","u","a","n">>, <<"z","h","u","a","n","g">>, <<"z","h","u","i">>,
    <<"z","h","u","n">>, <<"z","h","u","o">>, <<"c","h","a">>, <<"c","h","e">>,
    <<"c","h","i">>, <<"c","h","u">>, <<"c","h","a","i">>, <<"c","h","a","o">>,
    <<"c","h","o","u">>, <<"c","h","a","n">>, <<"c","h","e","n">>, <<"c","h","a","n","g">>,
    <<"c","h","e","n","g">>, <<"c","h","o","n","g">>, <<"c","h","u","a">>,
    <<"c","h","u","a","i">>, <<"c","h","u","a","n">>, <<"c","h","u","a","n","g">>,
    <<"c","h","u","i">>, <<"c","h","u","n">>, <<"c","h","u","o">>, <<"s","h","a">>,
    <<"s","h","e">>, <<"s","h","i">>, <<"s","h","u">>, <<"s","h","a","i">>,
    <<"s","h","e","i">>, <<"s","h","a","o">>, <<"s","h","o","u">>, <<"s","h","a","n">>,
    <<"s","h","e","n">>, <<"s","h","a","n","g">>, <<"s","h","e","n","g">>, <<"s","h","u","a">>,
    <<"s","h","u","a","i">>, <<"s","h","u","a","n">>, <<"s","h","u","a","n","g">>,
    <<"s","h","u","i">>, <<"s","h","u","n">>, <<"s","h","u","o">>, <<"r","e">>, <<"r","i">>,
    <<"r","u">>, <<"r","a","o">>, <<"r","o","u">>, <<"r","a","n">>, <<"r","e","n">>,
    <<"r","a","n","g">>, <<"r","e","n","g">>, <<"r","o","n","g">>, <<"r","u","a">>,
    <<"r","u","a","n">>, <<"r","u","i">>, <<"r","u","n">>, <<"r","u","o">>, <<"z","a">>,
    <<"z","e">>, <<"z","i">>, <<"z","u">>, <<"z","a","i">>, <<"z","e","i">>, <<"z","a","o">>,
    <<"z","o","u">>, <<"z","a","n">>, <<"z","e","n">>, <<"z","a","n","g">>,
    <<"z","e","n","g">>, <<"z","o","n","g">>, <<"z","u","o">>, <<"z","u","i">>,
    <<"z","u","a","n">>, <<"z","u","n">>, <<"c","a">>, <<"c","e">>, <<"c","i">>, <<"c","u">>,
    <<"c","a","i">>, <<"c","a","o">>, <<"c","o","u">>, <<"c","a","n">>, <<"c","e","n">>,
    <<"c","a","n","g">>, <<"c","e","n","g">>, <<"c","o","n","g">>, <<"c","u","o">>,
    <<"c","u","i">>, <<"c","u","a","n">>, <<"c","u","n">>, <<"s","a">>, <<"s","e">>,
    <<"s","i">>, <<"s","u">>, <<"s","a","i">>, <<"s","a","o">>, <<"s","o","u">>,
    <<"s","a","n">>, <<"s","e","n">>, <<"s","a","n","g">>, <<"s","e","n","g">>,
    <<"s","o","n","g">>, <<"s","u","o">>, <<"s","u","i">>, <<"s","u","a","n">>,
    <<"s","u","n">>, <<"y","a">>, <<"y","e">>, <<"y","i">>, <<"y","o">>, <<"y","u">>,
    <<"y","a","o">>, <<"y","o","u">>, <<"y","a","n">>, <<"y","i","n">>, <<"y","a","n","g">>,
    <<"y","i","n","g">>, <<"y","o","n","g">>, <<"y","u","a","n">>, <<"y","u","n">>,
    <<"y","u","e">>, <<"w","a">>, <<"w","o">>, <<"w","u">>, <<"w","a","i">>, <<"w","e","i">>,
    <<"w","a","n">>, <<"w","e","n">>, <<"w","a","n","g">>, <<"w","e","n","g">>
    }

is_valid_syllable(s) == s \in VALID_SYLLABLES

RECURSIVE split_from(_, _)
\* an inner loop that accepts the shortest valid slice instead of the longest
best_len_shortest(s, i) ==
    LET valid == {l \in 1..Min2(6, Len(s) - i + 1) :
                     is_valid_syllable(SubSeq(s, i, i + l - 1))}
    IN  IF valid = {} THEN 0 ELSE CHOOSE l \in valid : \A m \in valid : l <= m

\* the inner for loop: the longest valid syllable starting at i, 0 if none
best_len(s, i) ==
    SetMax({0} \cup {l \in 1..Min2(6, Len(s) - i + 1) :
                        is_valid_syllable(SubSeq(s, i, i + l - 1))})

\* a loop body that drops a letter starting no valid syllable
split_step_skip_invalid(s, i, best) ==
    IF best > 0
    THEN <<SubSeq(s, i, i + best - 1)>> \o split_from(s, i + best)
    ELSE split_from(s, i + 1)

\* the rest of the loop body, once the inner loop has set best
split_step(s, i, best) ==
    IF best > 0
    THEN <<SubSeq(s, i, i + best - 1)>> \o split_from(s, i + best)
    ELSE <<SubSeq(s, i, i)>> \o split_from(s, i + 1)

\* the while loop of split_pinyin, from (1-based) position i
split_from(s, i) ==
    IF i > Len(s) THEN <<>> ELSE split_step(s, i, best_len(s, i))

split_pinyin(s) == split_from(s, 1)

(***************************************************************************)
(* pinyin.rs: alternative segmentations.                                   *)
(***************************************************************************)
ALPHABET == <<"a","b","c","d","e","f","g","h","i","j","k","l","m",
              "n","o","p","q","r","s","t","u","v","w","x","y","z">>

\* byte value order of a lowercase letter
LetterOrd(c) == CHOOSE i \in 1..Len(ALPHABET) : ALPHABET[i] = c

\* Ord for str: lexicographic on bytes, a proper prefix is smaller
StrLess(a, b) ==
    \E k \in 1..(Len(b)) :
        /\ \A j \in 1..(k - 1) : j <= Len(a) /\ a[j] = b[j]
        /\ k - 1 <= Len(a)
        /\ \/ k > Len(a)
           \/ LetterOrd(a[k]) < LetterOrd(b[k])

\* Ord for Vec<String>: lexicographic on the elements
VecLess(u, v) ==
    \E k \in 1..(Len(v)) :
        /\ \A j \in 1..(k - 1) : j <= Len(u) /\ u[j] = v[j]
        /\ k - 1 <= Len(u)
        /\ \/ k > Len(u)
           \/ StrLess(u[k], v[k])

RECURSIVE try_split_recursive(_, _, _, _, _)
RECURSIVE try_split_lengths(_, _, _, _, _, _)
\* returns the value of `results` after the call
try_split_recursive(bytes, pos, current, greedy, results) ==
    IF pos > Len(bytes)
    THEN IF Len(current) >= 2 /\ current # greedy
         THEN Append(results, current) ELSE results
    ELSE IF Len(results) >= 5 THEN results
    ELSE try_split_lengths(bytes, pos, current, greedy, results,
                           Min2(6, Len(bytes) - pos + 1))

\* the for loop over try_len = l, l-1, .. 1
try_split_lengths(bytes, pos, current, greedy, results, l) ==
    IF l = 0 THEN results
    ELSE LET s  == SubSeq(bytes, pos, pos + l - 1)
             r1 == IF is_valid_syllable(s)
                   THEN try_split_recursive(bytes, pos + l, Append(current, s),
                                            greedy, results)
                   ELSE results
         IN  try_split_lengths(bytes, pos, current, greedy, r1, l - 1)

\* sort() followed by dedup() of a Vec<Vec<String>>
SortDedup(alts) ==
    LET S == Range(alts)
    IN  [i \in 1..Cardinality(S) |->
            CHOOSE x \in S : Cardinality({y \in S : VecLess(y, x)}) = i - 1]

\* the search, then the filter, sort and dedup of what it found
alternatives_to(input, greedy) ==
    SortDedup(SelectSeq(try_split_recursive(input, 1, <<>>, greedy, <<>>),
                        LAMBDA alt : alt # greedy))

split_pinyin_ambiguous(input) ==
    IF Len(input) < 3 THEN <<>>
    ELSE alternatives_to(input, split_pinyin(input))

\* the first letter of every syllable
first_letters(syllables) == [i \in 1..Len(syllables) |-> syllables[i][1]]

make_abbreviation(pinyin) == first_letters(split_pinyin(pinyin))

\* the u-umlaut code points that sanitize_pinyin maps to v
UMLAUTS == {"U+00FC", "U+01DC", "U+01DA", "U+01D8", "U+01D6"}

RECURSIVE sanitize_chars(_)
sanitize_chars(r) ==
    IF r = <<>> THEN <<>>
    ELSE LET ch == Head(r)
         IN  (IF ch \in Range(ALPHABET) THEN <<ch>>
              ELSE IF ch \in UMLAUTS THEN <<"v">>
              ELSE <<>>) \o sanitize_chars(Tail(r))

\* None is modelled as the empty string
sanitize_pinyin(r) == sanitize_chars(r)

(***************************************************************************)
(* pinyin.rs: the dictionary and its three indices.                        *)
(***************************************************************************)
RECURSIVE sort_by_weight(_)
\* sort_by(|a, b| b.weight.cmp(&a.weight)): stable, weight descending
sort_by_weight(cs) ==
    IF cs = <<>> THEN <<>>
    ELSE LET rest == sort_by_weight(SubSeq(cs, 1, Len(cs) - 1))
             c    == cs[Len(cs)]
             k    == Cardinality({i \in 1..Len(rest) : U32Geq(rest[i].weight, c.weight)})
         IN  SubSeq(rest, 1, k) \o <<c>> \o SubSeq(rest, k + 1, Len(rest))

\* ascending sequence of a set of indices
IndexSeq(S) ==
    [i \in 1..Cardinality(S) |->
        CHOOSE x \in S : Cardinality({y \in S : y < x}) = i - 1]

IsPrefix(p, s) == Len(p) <= Len(s) /\ SubSeq(s, 1, Len(p)) = p

RECURSIVE parse_lines(_)
\* first pass of from_text: one Candidate per usable line
parse_lines(text) ==
    IF text = <<>> THEN <<>>
    ELSE LET line   == Head(text)
             pinyin == sanitize_pinyin(line.pinyin)
         IN  (IF line.pinyin = <<>> \/ line.word = <<>> \/ pinyin = <<>>
              THEN <<>>
              ELSE <<[word |-> line.word, weight |-> U32(line.weight), pinyin |-> pinyin]>>)
             \o parse_lines(Tail(text))

\* second pass of from_text: the exact, prefix and abbreviation indices;
\* abbrs[i] is make_abbreviation of entry i
build_indices(all, abbrs) ==
    LET keys  == {all[i].pinyin : i \in 1..Len(all)}
        pres  == UNION {{SubSeq(all[i].pinyin, 1, l) :
                            l \in 1..Min2(6, Len(all[i].pinyin))} : i \in 1..Len(all)}
        abIdx == {i \in 1..Len(all) :
                     Len(abbrs[i]) >= 2 /\ abbrs[i] # all[i].pinyin}
    IN  [ exact  |-> [p \in keys |->
                        sort_by_weight(SelectSeq(all, LAMBDA c : c.pinyin = p))],
          prefix |-> [pre \in pres |->
                        IndexSeq({i \in 1..Len(all) : IsPrefix(pre, all[i].pinyin)})],
          abbrev |-> [ab \in {abbrs[i] : i \in abIdx} |->
                        IndexSeq({i \in abIdx : abbrs[i] = ab})],
          all    |-> all ]

index_entries(all) ==
    build_indices(all, [i \in 1..Len(all) |-> make_abbreviation(all[i].pinyin)])

from_text(text) == index_entries(parse_lines(text))

lookup(dict, pinyin) ==
    IF pinyin \in DOMAIN dict.exact THEN dict.exact[pinyin] ELSE <<>>

lookup_prefix(dict, pre) ==
    IF pre \in DOMAIN dict.prefix
    THEN sort_by_weight([i \in 1..Len(dict.prefix[pre]) |-> dict.all[dict.prefix[pre][i]]])
    ELSE <<>>

lookup_abbreviation(dict, ab) ==
    IF ab \in DOMAIN dict.abbrev
    THEN sort_by_weight([i \in 1..Len(dict.abbrev[ab]) |-> dict.all[dict.abbrev[ab][i]]])
    ELSE <<>>


(***************************************************************************)
(* pinyin.rs: Dictionary::boost_weight and Dictionary::merge_text.         *)
(***************************************************************************)
\* the first position of word in a bucket, 0 when it is not there
first_match(cands, word) ==
    IF \E i \in 1..Len(cands) : cands[i].word = word
    THEN CHOOSE i \in 1..Len(cands) :
             /\ cands[i].word = word
             /\ \A j \in 1..(i - 1) : cands[j].word # word
    ELSE 0

\* the for loop of boost_weight: the first entry of the word, then break
boost_at(cands, i, amount) ==
    IF i = 0 THEN cands
    ELSE [cands EXCEPT ![i].weight = saturating_add(@, amount)]

boost_weight(dict, pinyin, word, amount) ==
    IF pinyin \in DOMAIN dict.exact
    THEN [dict EXCEPT !.exact[pinyin] =
             sort_by_weight(boost_at(@, first_match(@, word), amount))]
    ELSE dict

\* char::to_lowercase
lower_char(c) == IF c = "A" THEN "a" ELSE IF c = "N" THEN "n" ELSE c

\* str::to_lowercase
to_lowercase(r) == [i \in 1..Len(r) |-> lower_char(r[i])]

\* the UTF-8 length of a character: two bytes for the u-umlauts
char_len(c) == IF c \in UMLAUTS THEN 2 ELSE 1

RECURSIVE byte_len(_)
\* str::len
byte_len(r) == IF r = <<>> THEN 0 ELSE char_len(Head(r)) + byte_len(Tail(r))

\* &raw_py[..plen] panics when plen is not a character boundary: some
\* two-byte character starts before byte min(6, len)
prefix_slice_panics(r) ==
    \E i \in 1..Len(r) :
        /\ char_len(r[i]) = 2
        /\ byte_len(SubSeq(r, 1, i - 1)) + 1 <= Min2(6, byte_len(r))

\* map.entry(k).or_default().push(v)
entry_push(map, k, v) ==
    IF k \in DOMAIN map THEN [map EXCEPT ![k] = Append(@, v)]
    ELSE [x \in DOMAIN map \cup {k} |-> IF x = k THEN <<v>> ELSE map[x]]

\* a prefix loop that leaves out the one-letter prefix
push_prefixes_from_two(prefix, key, idx) ==
    LET pres == {SubSeq(key, 1, l) : l \in 2..Min2(6, Len(key))}
    IN  [p \in DOMAIN prefix \cup pres |->
            (IF p \in DOMAIN prefix THEN prefix[p] ELSE <<>>)
            \o (IF p \in pres THEN <<idx>> ELSE <<>>)]

\* the prefix loop of merge_text for an ASCII key
push_prefixes(prefix, key, idx) ==
    LET pres == {SubSeq(key, 1, l) : l \in 1..Min2(6, Len(key))}
    IN  [p \in DOMAIN prefix \cup pres |->
            (IF p \in DOMAIN prefix THEN prefix[p] ELSE <<>>)
            \o (IF p \in pres THEN <<idx>> ELSE <<>>)]

\* the abbreviation index of merge_text, ab being make_abbreviation(key)
push_abbrev(abbrev, key, ab, idx) ==
    IF Len(ab) >= 2 /\ ab # key THEN entry_push(abbrev, ab, idx) ELSE abbrev

\* the dictionary after the candidate cand is added by merge_text
add_entry(dict, cand) ==
    [ exact  |-> entry_push(dict.exact, cand.pinyin, cand),
      prefix |-> push_prefixes(dict.prefix, cand.pinyin, Len(dict.all) + 1),
      abbrev |-> push_abbrev(dict.abbrev, cand.pinyin,
                             make_abbreviation(cand.pinyin), Len(dict.all) + 1),
      all    |-> Append(dict.all, cand) ]

\* the final loop of merge_text: every exact bucket sorted again
resort_exact(dict) ==
    [dict EXCEPT !.exact = [p \in DOMAIN dict.exact |-> sort_by_weight(dict.exact[p])]]

RECURSIVE merge_lines(_, _, _)
\* a loop body that adds the line without looking for its pair
merge_line_unchecked(dict, line, raw_py, rest, added) ==
    IF raw_py = <<>> \/ line.word = <<>> THEN merge_lines(dict, rest, added)
    ELSE IF prefix_slice_panics(raw_py)
    THEN [dict |-> dict, added |-> added, panicked |-> TRUE]
    ELSE merge_lines(add_entry(dict, [word |-> line.word,
                                      weight |-> U32(line.weight),
                                      pinyin |-> raw_py]),
                     rest, added + 1)

\* one line of merge_text with its lower-cased pinyin field
merge_line(dict, line, raw_py, rest, added) ==
    IF raw_py = <<>> \/ line.word = <<>> THEN merge_lines(dict, rest, added)
    ELSE IF \E c \in Range(lookup(dict, raw_py)) : c.word = line.word
    THEN merge_lines(dict, rest, added)
    ELSE IF prefix_slice_panics(raw_py)
    THEN [dict |-> dict, added |-> added, panicked |-> TRUE]
    ELSE merge_lines(add_entry(dict, [word |-> line.word,
                                      weight |-> U32(line.weight),
                                      pinyin |-> raw_py]),
                     rest, added + 1)

\* the for loop of merge_text over the lines left, then the final sort
merge_lines(dict, text, added) ==
    IF text = <<>>
    THEN [dict |-> resort_exact(dict), added |-> added, panicked |-> FALSE]
    ELSE merge_line(dict, Head(text), to_lowercase(Head(text).pinyin),
                    Tail(text), added)

\* the dictionary left, the count returned, and whether the call panicked
\* instead of returning
merge_text(dict, text) == merge_lines(dict, text, 0)
(***************************************************************************)
(* The installed corpus (dict.txt) and plugin directory of the modelled    *)
(* run.  Words are sequences of characters; AA is a two-character word.    *)
(***************************************************************************)
DictText ==
    << [pinyin |-> <<"a">>,     word |-> <<"A">>,      weight |-> 999],
       [pinyin |-> <<"a">>,     word |-> <<"E">>,      weight |-> 900],
       [pinyin |-> <<"a","a">>, word |-> <<"A","A">>,  weight |-> 100],
       [pinyin |-> <<"a","n">>, word |-> <<"N">>,      weight |-> 950],
       [pinyin |-> <<"n","a">>, word |-> <<"M">>,      weight |-> 991] >>

\* global_dict(): the dictionary built once at start
DICT == from_text(DictText)

Take(s, n) == SubSeq(s, 1, Min2(n, Len(s)))

\* ai_engine.rs: AIPredictor::predict.  The model is an opaque deterministic
\* scorer; the installed one proposes these words (at most top_k of them),
\* whatever dictionary words it is given as guidance
predict(model, pinyin, context, top_k, dict_words) ==
    IF model = "absent" THEN <<>>
    ELSE Take(IF pinyin = <<"a">>
              THEN IF context = <<>> THEN << <<"A","A">>, <<"E">> >>
                   ELSE << <<"E">>, <<"A">> >>
              ELSE IF pinyin = <<"a","a">> THEN << <<"E","A">>, <<"A","A">> >>
              ELSE <<>>, top_k)

(***************************************************************************)
(* pinyin.rs: PinyinEngine.  An engine is [raw, syllables].                *)
(***************************************************************************)
EmptyEngine == [raw |-> <<>>, syllables |-> <<>>]

\* char::is_ascii_lowercase
is_ascii_lowercase(ch) == ch \in Range(ALPHABET)

engine_push(e, ch) ==
    IF is_ascii_lowercase(ch)
    THEN LET r == Append(e.raw, ch) IN [raw |-> r, syllables |-> split_pinyin(r)]
    ELSE e

\* a pop that drops the last syllable instead of segmenting again
engine_pop_syllable(e) ==
    LET r == IF e.raw = <<>> THEN <<>> ELSE SubSeq(e.raw, 1, Len(e.raw) - 1)
    IN  [raw |-> r,
         syllables |-> IF e.syllables = <<>> THEN <<>>
                       ELSE SubSeq(e.syllables, 1, Len(e.syllables) - 1)]

engine_pop(e) ==
    LET r == IF e.raw = <<>> THEN <<>> ELSE SubSeq(e.raw, 1, Len(e.raw) - 1)
    IN  [raw |-> r, syllables |-> IF r = <<>> THEN <<>> ELSE split_pinyin(r)]

engine_clear(e) == EmptyEngine

\* a commit that always drops the whole buffer
consume_all(e, n) == IF n = 0 THEN e ELSE EmptyEngine

consume_syllables(e, n) ==
    IF n = 0 THEN e
    ELSE IF n >= Len(e.syllables) THEN engine_clear(e)
    ELSE LET chars_to_consume == Len(Concat(SubSeq(e.syllables, 1, n)))
         IN  IF chars_to_consume >= Len(e.raw) THEN engine_clear(e)
             ELSE LET r == SubSeq(e.raw, chars_to_consume + 1, Len(e.raw))
                  IN  [raw |-> r, syllables |-> split_pinyin(r)]

RECURSIVE add_words(_, _)
\* the add! macro after take(limit): push every word not seen before
add_words(result, words) ==
    IF words = <<>> THEN result
    ELSE add_words(IF Head(words) \in Range(result) THEN result
                   ELSE Append(result, Head(words)), Tail(words))

WordsOf(cands, limit) == LET t == Take(cands, limit) IN [i \in 1..Len(t) |-> t[i].word]

\* add!(cands, limit)
add(result, cands, limit) == add_words(result, WordsOf(cands, limit))

\* the body of the loop of step 2.5 for one alternative segmentation
add_alt_first(result, alt, e) ==
    IF alt[1] # (IF e.syllables = <<>> THEN <<>> ELSE e.syllables[1])
    THEN add(result, lookup(DICT, alt[1]), 5)
    ELSE result

add_alt_multi(result, alt) ==
    IF Len(alt) >= 2 THEN add(result, lookup(DICT, Concat(alt)), 5) ELSE result

RECURSIVE add_alt_splits(_, _, _)
\* step 2.5 of get_candidates: the loop over the alternative segmentations
add_alt_splits(result, alts, e) ==
    IF alts = <<>> THEN result
    ELSE add_alt_splits(add_alt_multi(add_alt_first(result, Head(alts), e),
                                      Head(alts)),
                        Tail(alts), e)

\* step 1: the whole buffer, exact
add_exact(result, e) == add(result, lookup(DICT, e.raw), 20)

\* step 2: the first syllable, exact, when it is not the whole buffer
add_first_exact(result, e) ==
    IF e.syllables # <<>> /\ e.syllables[1] # e.raw
    THEN add(result, lookup(DICT, e.syllables[1]), 9)
    ELSE result

\* step 3: the buffer read as initials
add_abbreviation(result, e) ==
    IF Len(e.raw) >= 2 /\ Len(e.raw) <= 10
    THEN add(result, lookup_abbreviation(DICT, e.raw), 15)
    ELSE result

\* step 4: the buffer as a prefix
add_prefix(result, e) ==
    IF Len(result) < 9 THEN add(result, lookup_prefix(DICT, e.raw), 20) ELSE result

\* step 5: the first syllable as a prefix
add_first_prefix(result, e) ==
    IF /\ Len(result) < 9
       /\ e.syllables # <<>>
       /\ e.syllables[1] # e.raw
       /\ Len(e.syllables[1]) >= 2
    THEN add(result, lookup_prefix(DICT, e.syllables[1]), 15)
    ELSE result

get_candidates(e) ==
    IF e.raw = <<>> THEN <<>>
    ELSE add_first_prefix(
             add_prefix(
                 add_abbreviation(
                     add_alt_splits(
                         add_first_exact(add_exact(<<>>, e), e),
                         split_pinyin_ambiguous(e.raw), e),
                     e),
                 e),
             e)

\* plugin_system.rs: the pipeline over the enabled plugins; none is installed
transform_candidates(raw, cands) == cands

(***************************************************************************)
(* user_dict.rs: the user learning store, a map (pinyin, word) -> count.   *)
(* Counts are u32; the runs modelled stay far below 2^32.                  *)
(***************************************************************************)
\* a learn that counts every selection twice
learn_twice(d, pinyin, word) ==
    IF pinyin = <<>> \/ word = <<>> THEN d
    ELSE LET key == <<pinyin, word>>
         IN  IF key \in DOMAIN d THEN [d EXCEPT ![key] = @ + 2]
             ELSE d @@ (key :> 2)

learn(d, pinyin, word) ==
    IF pinyin = <<>> \/ word = <<>> THEN d
    ELSE LET key == <<pinyin, word>>
         IN  IF key \in DOMAIN d THEN [d EXCEPT ![key] = @ + 1]
             ELSE d @@ (key :> 1)

\* the decrement that undoes one learn; an entry reaching 0 is removed
unlearn(d, pinyin, word) ==
    LET key == <<pinyin, word>>
    IN  IF key \notin DOMAIN d THEN d
        ELSE IF d[key] <= 1 THEN [k \in DOMAIN d \ {key} |-> d[k]]
        ELSE [d EXCEPT ![key] = @ - 1]

get_weight(d, pinyin, word) ==
    IF <<pinyin, word>> \in DOMAIN d THEN d[<<pinyin, word>>] ELSE 0

\* every order the hash map iteration followed by the stable sort can give:
\* the (word, count) pairs of the pinyin, count descending
get_learned_words(d, pinyin) ==
    LET K == {k \in DOMAIN d : k[1] = pinyin}
        n == Cardinality(K)
    IN  { [i \in 1..n |-> [word |-> f[i][2], count |-> d[f[i]]]] :
            f \in { g \in [1..n -> K] :
                      /\ \A i, j \in 1..n : i # j => g[i] # g[j]
                      /\ \A i \in 1..(n - 1) : d[g[i]] >= d[g[i + 1]] } }

(***************************************************************************)
(* ai_engine.rs: HistoryBuffer.                                            *)
(***************************************************************************)
HISTORY_CAPACITY == 100

history_push(buf, text) ==
    IF text = <<>> THEN buf
    ELSE Append(IF Len(buf) >= HISTORY_CAPACITY THEN Tail(buf) ELSE buf, text)


\* HistoryBuffer::push on a buffer h = [buf, capacity]: the buffer left, and
\* whether Vec::remove(0) panicked on an empty vector
push(h, text) ==
    IF text = <<>> THEN [h |-> h, panicked |-> FALSE]
    ELSE IF Len(h.buf) >= h.capacity
    THEN IF h.buf = <<>> THEN [h |-> h, panicked |-> TRUE]
         ELSE [h |-> [h EXCEPT !.buf = Append(Tail(@), text)], panicked |-> FALSE]
    ELSE [h |-> [h EXCEPT !.buf = Append(@, text)], panicked |-> FALSE]

\* HistoryBuffer::recent
recent(h, n) ==
    SubSeq(h.buf, (IF Len(h.buf) >= n THEN Len(h.buf) - n ELSE 0) + 1, Len(h.buf))
(***************************************************************************)
(* The state of the program: the fields of ImeState (main.rs), the view,   *)
(* the injected text, the threads the hook and the refresh have spawned.   *)
(***************************************************************************)
VARIABLES
    raw, syllables,          \* input.engine
    current_candidates, all_candidates, page_offset,
    chinese_mode, shift_down, shift_modified,
    ai_generation,
    last_commit,             \* None = <<>>, Some((py, word)) = <<[py, word]>>
    backspace_count,
    user_dict,               \* [(pinyin, word) -> count]
    history,                 \* HistoryBuffer.buf
    ai_cache,                \* AI_CACHE, flattened: sequence of Candidate
    dict_appended,           \* lines cache_ai_word appended to dict.txt
    ai_model, ai_first,      \* the model session of ai (or "absent"), ai.ai_first
    view,                    \* the candidate window: [visible, raw, cands, page]
    injected,                \* texts handed to SendInput, in order
    key_threads,             \* spawned cb_process_key threads, not yet run
    workers,                 \* spawned neural job threads
    nEvents,                 \* number of key events the hook has received
    hookLog,                 \* what the hook did with the last key event
    commitLog,               \* the last commit by index
    mergeLog,                \* the last merge of the three sources
    viewLog,                 \* the candidate lists sent to the view, by keystroke
    applyLog,                \* what the applied neural results did
    undoLog,                 \* key events since the last commit by index
    shiftLog,                \* key-downs since Shift went down
    segIn, segOut, segAgain, segAlts, segPc,   \* SpecSeg: the segmenter on one input
    storeLog,                \* SpecStore: the last two store operations
    dictText, dict, dictLog, dictPc,  \* SpecDict: a corpus, its dictionary, the calls made
    hist, histLog, histPc,   \* SpecHist: a history buffer and the strings pushed
    predictor, predLog, predPc,  \* SpecPredictor: an AIPredictor and its last call
    files, proc, runLog,     \* SpecRestart: dict.txt and dict.bin, the process, its runs
    plugin_sys, plugin_dir, plugLog,  \* SpecPlugins: the system, its directory, the last call
    engine, engLog,          \* SpecEngine: a PinyinEngine and the last call made on it
    graphLog                 \* SpecGraph: the last call of word_graph_segment

vars == << raw, syllables, current_candidates, all_candidates, page_offset,
           chinese_mode, shift_down, shift_modified, ai_generation, last_commit,
           backspace_count, user_dict, history, ai_cache, dict_appended,
           ai_model, ai_first, view, injected, key_threads, workers,
           nEvents, hookLog, commitLog, mergeLog, viewLog, applyLog, undoLog,
           shiftLog,
           segIn, segOut, segAgain, segAlts, segPc, storeLog,
           dictText, dict, dictLog, dictPc, hist, histLog, histPc,
           predictor, predLog, predPc, files, proc, runLog,
           plugin_sys, plugin_dir, plugLog, engine, engLog, graphLog >>

\* ai.is_available()
ai_available == ai_model # "absent"

\* HistoryBuffer::context_string
context_string(buf) == Concat(buf)

\* the program state as one record, for the handlers below
Ime == [ raw |-> raw, syllables |-> syllables,
         current_candidates |-> current_candidates,
         all_candidates |-> all_candidates, page_offset |-> page_offset,
         chinese_mode |-> chinese_mode, shift_down |-> shift_down,
         shift_modified |-> shift_modified, ai_generation |-> ai_generation,
         last_commit |-> last_commit, backspace_count |-> backspace_count,
         user_dict |-> user_dict, history |-> history, ai_cache |-> ai_cache,
         dict_appended |-> dict_appended, view |-> view, injected |-> injected,
         workers |-> workers, commitLog |-> commitLog, mergeLog |-> mergeLog,
         viewLog |-> viewLog ]

\* the assignment of a handler's result to the variables
Becomes(s) ==
    /\ raw' = s.raw /\ syllables' = s.syllables
    /\ current_candidates' = s.current_candidates
    /\ all_candidates' = s.all_candidates /\ page_offset' = s.page_offset
    /\ chinese_mode' = s.chinese_mode /\ shift_down' = s.shift_down
    /\ shift_modified' = s.shift_modified /\ ai_generation' = s.ai_generation
    /\ last_commit' = s.last_commit /\ backspace_count' = s.backspace_count
    /\ user_dict' = s.user_dict /\ history' = s.history /\ ai_cache' = s.ai_cache
    /\ dict_appended' = s.dict_appended /\ view' = s.view /\ injected' = s.injected
    /\ commitLog' = s.commitLog /\ mergeLog' = s.mergeLog
    /\ viewLog' = s.viewLog

\* the variables hold the record s
StateIs(s) ==
    /\ raw = s.raw /\ syllables = s.syllables
    /\ current_candidates = s.current_candidates
    /\ all_candidates = s.all_candidates /\ page_offset = s.page_offset
    /\ chinese_mode = s.chinese_mode /\ shift_down = s.shift_down
    /\ shift_modified = s.shift_modified /\ ai_generation = s.ai_generation
    /\ last_commit = s.last_commit /\ backspace_count = s.backspace_count
    /\ user_dict = s.user_dict /\ history = s.history /\ ai_cache = s.ai_cache
    /\ dict_appended = s.dict_appended /\ view = s.view /\ injected = s.injected
    /\ workers = s.workers
    /\ commitLog = s.commitLog /\ mergeLog = s.mergeLog
    /\ viewLog = s.viewLog

EngineOf(s) == [raw |-> s.raw, syllables |-> s.syllables]

WithEngine(s, e) == [s EXCEPT !.raw = e.raw, !.syllables = e.syllables]

(***************************************************************************)
(* webview_ui.rs: the events sent to the candidate window, in send order.  *)
(***************************************************************************)
view_hide(s) == [s EXCEPT !.view.visible = FALSE]

view_show(s) == [s EXCEPT !.view.visible = TRUE]

\* the list is sent and counted; the caller's action credits it to a keystroke
update_candidates_with_page(s, r, cands, page_info) ==
    [s EXCEPT !.view.raw = r, !.view.cands = cands, !.view.page = page_info,
              !.viewLog.pending = @ + 1]

\* the lists sent since the last credit are credited to keystroke key, as sent
\* by its thread (path "sync") or by the neural job it dispatched ("async")
credited(s, key, path) ==
    LET k  == s.viewLog.pending
        by == s.viewLog.by
    IN  IF k = 0 THEN s
        ELSE [s EXCEPT !.viewLog =
                 [pending |-> 0,
                  by |-> IF \E u \in by : u.key = key /\ u.path = path
                         THEN { IF u.key = key /\ u.path = path
                                THEN [u EXCEPT !.n = @ + k] ELSE u : u \in by }
                         ELSE by \cup {[key |-> key, path |-> path, n |-> k]}]]

\* main.rs: SendInput is not called for an empty text
send_unicode_text(s, text) ==
    IF text = <<>> THEN s ELSE [s EXCEPT !.injected = Append(@, text)]

(***************************************************************************)
(* key_event.rs: handle_key_down.  commit: None = <<>>, Some(c) = <<c>>.   *)
(***************************************************************************)
KeyPass(e) == [engine |-> e, eaten |-> FALSE, commit |-> <<>>, need_refresh |-> FALSE]

\* space and digits: CommitAction::Index, the engine is left to the caller
handle_commit_key(e, vkey) ==
    IF e.raw = <<>> THEN KeyPass(e)
    ELSE [engine |-> e, eaten |-> TRUE,
          commit |-> <<[kind |-> "Index", idx |-> IF vkey = 32 THEN 0 ELSE vkey - 49]>>,
          need_refresh |-> TRUE]

handle_key_down(e, vkey) ==
    IF vkey \in 65..90
    THEN [engine |-> engine_push(e, ALPHABET[vkey - 64]), eaten |-> TRUE,
          commit |-> <<>>, need_refresh |-> TRUE]
    ELSE IF vkey = 8
    THEN IF e.raw = <<>> THEN KeyPass(e)
         ELSE [engine |-> engine_pop(e), eaten |-> TRUE,
               commit |-> <<>>, need_refresh |-> TRUE]
    ELSE IF vkey = 32 \/ vkey \in 49..57
    THEN handle_commit_key(e, vkey)
    ELSE IF vkey = 27
    THEN IF e.raw = <<>> THEN KeyPass(e)
         ELSE [engine |-> engine_clear(e), eaten |-> TRUE,
               commit |-> <<>>, need_refresh |-> TRUE]
    ELSE IF vkey = 13
    THEN IF e.raw = <<>> THEN KeyPass(e)
         ELSE [engine |-> engine_clear(e), eaten |-> TRUE,
               commit |-> <<[kind |-> "Text", text |-> e.raw]>>,
               need_refresh |-> TRUE]
    ELSE KeyPass(e)

(***************************************************************************)
(* pinyin.rs: cache_ai_word.                                               *)
(***************************************************************************)
cache_ai_word(s, pinyin, word) ==
    IF pinyin = <<>> \/ word = <<>> THEN s
    ELSE IF \E c \in Range(lookup(DICT, pinyin)) : c.word = word
    THEN s
    ELSE IF \E i \in 1..Len(s.ai_cache) :
                s.ai_cache[i].pinyin = pinyin /\ s.ai_cache[i].word = word
    THEN s
    ELSE LET c == [word |-> word, weight |-> U32(880), pinyin |-> pinyin]
         IN  [s EXCEPT !.ai_cache = Append(@, c), !.dict_appended = Append(@, c)]

(***************************************************************************)
(* main.rs: paging and the refresh of the candidates.                      *)
(***************************************************************************)
PAGE_SIZE == 9

\* a page that always starts at the head of the list
show_first_page(s, r) ==
    LET total == Len(s.all_candidates)
    IN  IF total = 0 THEN view_hide(s)
        ELSE LET cur         == SubSeq(s.all_candidates, 1, Min2(PAGE_SIZE, total))
                 page_num    == (s.page_offset \div PAGE_SIZE) + 1
                 total_pages == (total + PAGE_SIZE - 1) \div PAGE_SIZE
                 page_info   == IF total_pages > 1
                                THEN <<[current |-> page_num, total |-> total_pages]>>
                                ELSE <<>>
             IN  update_candidates_with_page(
                     [s EXCEPT !.current_candidates = cur], r, cur, page_info)

show_current_page(s, r) ==
    LET total == Len(s.all_candidates)
    IN  IF total = 0 THEN view_hide(s)
        ELSE LET offset      == Min2(s.page_offset, total - 1)
                 end         == Min2(offset + PAGE_SIZE, total)
                 cur         == SubSeq(s.all_candidates, offset + 1, end)
                 page_num    == (offset \div PAGE_SIZE) + 1
                 total_pages == (total + PAGE_SIZE - 1) \div PAGE_SIZE
                 page_info   == IF total_pages > 1
                                THEN <<[current |-> page_num, total |-> total_pages]>>
                                ELSE <<>>
             IN  update_candidates_with_page(
                     [s EXCEPT !.current_candidates = cur], r, cur, page_info)

page_down(s) ==
    IF s.page_offset + PAGE_SIZE < Len(s.all_candidates)
    THEN show_current_page([s EXCEPT !.page_offset = @ + PAGE_SIZE], s.raw)
    ELSE s

page_up(s) ==
    IF s.page_offset >= PAGE_SIZE
    THEN show_current_page([s EXCEPT !.page_offset = @ - PAGE_SIZE], s.raw)
    ELSE s

RECURSIVE push_unseen(_, _)
\* for w in words { if seen.insert(w) { merged.push(w) } }
push_unseen(merged, words) ==
    IF words = <<>> THEN merged
    ELSE push_unseen(IF Head(words) \in Range(merged) THEN merged
                     ELSE Append(merged, Head(words)), Tail(words))

LearnedWordList(learned) == [i \in 1..Len(learned) |-> learned[i].word]

\* a merge that puts the neural words before the user's words
merge_ai_first(learned, ai, dict_after) ==
    push_unseen(push_unseen(push_unseen(<<>>, ai), LearnedWordList(learned)), dict_after)

\* the merge of the synchronous path
merge_sync(learned, sync_ai_cands, dict_after) ==
    push_unseen(push_unseen(push_unseen(<<>>, LearnedWordList(learned)),
                            sync_ai_cands), dict_after)

\* the merge inside the neural job
merge_async(learned, ai_scored, dict_clone) ==
    push_unseen(push_unseen(push_unseen(<<>>, LearnedWordList(learned)),
                            ai_scored), dict_clone)

\* a refresh that sends the first page a second time
show_merged_twice(s, display_cands) ==
    show_current_page(
        view_show(show_current_page([s EXCEPT !.all_candidates = display_cands,
                                              !.page_offset = 0], s.raw)), s.raw)

\* refresh_candidates once display_cands is merged and found non-empty: the
\* list is stored, its first page is sent to the view and the view is shown
show_merged(s, display_cands) ==
    view_show(show_current_page([s EXCEPT !.all_candidates = display_cands,
                                          !.page_offset = 0], s.raw))

\* the neural job once merged is built: the list is stored and its first
\* page is sent to the view, which is shown when the buffer is empty
apply_merged(s, raw_clone, merged) ==
    LET page_info == IF Len(merged) > PAGE_SIZE
                     THEN <<[current |-> 1,
                             total |-> (Len(merged) + PAGE_SIZE - 1) \div PAGE_SIZE]>>
                     ELSE <<>>
        s1 == update_candidates_with_page(
                  [s EXCEPT !.all_candidates = merged, !.page_offset = 0],
                  raw_clone, Take(merged, PAGE_SIZE), page_info)
    IN  IF s1.raw = <<>> THEN view_show(s1) ELSE s1

\* refresh_candidates from the merge on: dict_after is the dictionary layer
\* after the plugins, learned the user's words in their order, key the
\* keystroke being processed
refresh_merge(s, learned, key, dict_after) ==
    LET sync_ai_cands == IF Len(s.syllables) = 1 /\ ai_available
                         THEN predict(ai_model, s.raw, context_string(s.history), 9,
                                      dict_after)
                         ELSE <<>>
        display_cands == merge_sync(learned, sync_ai_cands, dict_after)
        s1 == [s EXCEPT !.mergeLog =
                  <<[path |-> "sync", raw |-> s.raw, store |-> s.user_dict,
                     learned |-> learned, ai |-> sync_ai_cands,
                     dict |-> dict_after, merged |-> display_cands]>>]
    IN  IF display_cands = <<>> THEN view_hide(s1)
        ELSE LET s2 == show_merged(s1, display_cands)
             IN  IF ai_first /\ ai_available
                 THEN [s2 EXCEPT
                         !.ai_generation = @ + 1,
                         !.workers = @ \cup
                            {[gen |-> s2.ai_generation + 1, raw |-> s.raw,
                              dict |-> dict_after, key |-> key,
                              pc |-> "predict", ai_scored |-> <<>>,
                              overtaken |-> FALSE]}]
                 ELSE s2

\* refresh_candidates with the order learned of the user's words
refresh_with(s, learned, key) ==
    refresh_merge(s, learned, key,
                  transform_candidates(s.raw, get_candidates(EngineOf(s))))

\* the set of states refresh_candidates can leave
refresh_candidates(s, key) ==
    IF s.raw = <<>> THEN {view_hide(s)}
    ELSE {refresh_with(s, learned, key) :
              learned \in get_learned_words(s.user_dict, s.raw)}

(***************************************************************************)
(* main.rs: cb_process_key, the body of a key-processing thread.           *)
(***************************************************************************)
\* the selected text enters the history, the user store and the word cache
commit_learn(s, raw_before, text) ==
    IF raw_before = <<>> THEN [s EXCEPT !.history = history_push(@, text)]
    ELSE IF Len(text) >= 3
    THEN cache_ai_word([s EXCEPT !.history = history_push(@, text),
                                 !.user_dict = learn(@, raw_before, text)],
                       raw_before, text)
    ELSE [s EXCEPT !.history = history_push(@, text),
                   !.user_dict = learn(@, raw_before, text)]

\* the undo trace is set and the text is sent to the application
commit_send(s, raw_before, text) ==
    send_unicode_text([s EXCEPT !.last_commit = <<[py |-> raw_before, word |-> text]>>,
                                !.backspace_count = 0], text)

\* the engine e is what consume_syllables left; before is the segmentation
\* it started from, n the number of commits by index so far
commit_consumed(s, e, raw_before, text, before, n) ==
    [WithEngine(s, e) EXCEPT
        !.current_candidates = <<>>,
        !.commitLog = <<[n |-> n + 1, py |-> raw_before, word |-> text,
                         before |-> before,
                         raw |-> e.raw, syllables |-> e.syllables]>>]

\* the Index arm from the history push to current_candidates.clear()
commit_index(s, raw_before, text) ==
    commit_consumed(commit_send(commit_learn(s, raw_before, text), raw_before, text),
                    consume_syllables(EngineOf(s), Len(text)),
                    raw_before, text, s.syllables,
                    IF s.commitLog = <<>> THEN 0 ELSE s.commitLog[1].n)

\* the end of the Index arm: the buffer is empty or the candidates are
\* refreshed for what is left
after_index(s) ==
    IF s.raw = <<>>
    THEN [state |-> view_hide([s EXCEPT !.all_candidates = <<>>,
                                        !.current_candidates = <<>>]),
          refresh |-> FALSE]
    ELSE [state |-> s, refresh |-> TRUE]

\* a Text arm that also records the text in the user store
commit_text_learned(s, text) ==
    send_unicode_text(
        [WithEngine(view_hide(s), engine_clear(EngineOf(s))) EXCEPT
            !.current_candidates = <<>>,
            !.history = history_push(@, text),
            !.user_dict = learn(@, text, text)], text)

\* the Text arm
commit_text(s, text) ==
    send_unicode_text(
        [WithEngine(view_hide(s), engine_clear(EngineOf(s))) EXCEPT
            !.current_candidates = <<>>,
            !.history = history_push(@, text)], text)

\* match result.commit: the state left and whether a refresh follows
dispatch_commit(s, raw_before, result) ==
    LET commit == result.commit
    IN  IF commit # <<>> /\ commit[1].kind = "Index"
             /\ commit[1].idx + 1 <= Len(s.current_candidates)
             /\ s.current_candidates[commit[1].idx + 1] # <<>>
        THEN after_index(commit_index(s, raw_before,
                                      s.current_candidates[commit[1].idx + 1]))
        ELSE IF commit # <<>> /\ commit[1].kind = "Text"
        THEN [state |-> commit_text(s, commit[1].text),
              refresh |-> result.need_refresh]
        ELSE [state |-> s, refresh |-> result.need_refresh]

\* cb_process_key once handle_key_down has returned result
process_result(s, raw_before, result) ==
    dispatch_commit(WithEngine(s, result.engine), raw_before, result)

\* the refresh that ends cb_process_key
finish_key(d, key) ==
    IF d.refresh THEN refresh_candidates(d.state, key) ELSE {d.state}

cb_process_key(s, vkey, key) ==
    IF vkey \in {187, 34} THEN {page_down(s)}
    ELSE IF vkey \in {189, 33} THEN {page_up(s)}
    ELSE finish_key(process_result(s, s.raw, handle_key_down(EngineOf(s), vkey)),
                    key)
(***************************************************************************)
(* main.rs: the low-level keyboard hook.                                   *)
(***************************************************************************)
IsShift(vkey) == vkey = 16 \/ vkey = 160 \/ vkey = 161

\* a classifier that lets the page keys through
should_eat_no_paging(vkey, has_input) ==
    IF vkey \in 65..90 THEN TRUE
    ELSE IF vkey \in {8, 32, 27, 13} \/ vkey \in 49..57 THEN has_input
    ELSE FALSE

should_eat(vkey, has_input) ==
    IF vkey \in 65..90 THEN TRUE
    ELSE IF vkey \in {8, 32, 27, 13, 187, 189, 33, 34} \/ vkey \in 49..57
    THEN has_input
    ELSE FALSE

\* a toggle that drops the pending letters instead of sending them
toggle_mode_drop(s) ==
    LET s1 == [s EXCEPT !.chinese_mode = ~@]
    IN  IF ~s1.chinese_mode
        THEN view_hide(WithEngine(s1, engine_clear(EngineOf(s1))))
        ELSE s1

toggle_mode(s) ==
    LET s1 == [s EXCEPT !.chinese_mode = ~@]
    IN  IF ~s1.chinese_mode
        THEN view_hide(IF s1.raw # <<>>
                       THEN send_unicode_text(
                                WithEngine(s1, engine_clear(EngineOf(s1))), s1.raw)
                       ELSE s1)
        ELSE s1

\* the backspace-undo block of the hook (main.rs 343-363)
undo_track(s, vkey, eat) ==
    IF vkey = 8 /\ ~eat /\ s.chinese_mode
    THEN IF s.last_commit # <<>>
         THEN LET count == s.backspace_count + 1
                  py    == s.last_commit[1].py
                  word  == s.last_commit[1].word
              IN  IF count >= Len(word)
                  THEN [s EXCEPT !.user_dict = unlearn(@, py, word),
                                 !.last_commit = <<>>, !.backspace_count = 0]
                  ELSE [s EXCEPT !.backspace_count = count]
         ELSE s
    ELSE IF vkey # 8
    THEN IF s.last_commit # <<>>
         THEN [s EXCEPT !.last_commit = <<>>, !.backspace_count = 0]
         ELSE s
    ELSE s

\* WM_KEYDOWN / WM_SYSKEYDOWN: the state left and whether the key is eaten
hook_key_down(s, vkey) ==
    IF IsShift(vkey)
    THEN [state |-> [s EXCEPT !.shift_down = TRUE, !.shift_modified = FALSE],
          eaten |-> FALSE]
    ELSE LET s1 == IF s.shift_down THEN [s EXCEPT !.shift_modified = TRUE] ELSE s
         IN  IF ~s1.chinese_mode THEN [state |-> s1, eaten |-> FALSE]
             ELSE LET eat == should_eat(vkey, s1.raw # <<>>)
                  IN  [state |-> undo_track(s1, vkey, eat), eaten |-> eat]

\* WM_KEYUP / WM_SYSKEYUP: never eaten
hook_key_up(s, vkey) ==
    IF IsShift(vkey) /\ s.shift_down
    THEN LET s1 == [s EXCEPT !.shift_down = FALSE]
             s2 == IF ~s1.shift_modified THEN toggle_mode(s1) ELSE s1
         IN  [s2 EXCEPT !.shift_modified = FALSE]
    ELSE s


(***************************************************************************)
(* ai_engine.rs: VocabIndex.  A character is a one-character string, a     *)
(* text a sequence of characters, a pinyin key a sequence of letters.      *)
(***************************************************************************)
\* char2id.json of the installed vocabulary: four special tokens, then the
\* characters; "Q" is a character no syllable of pinyin2char.json lists
CHAR2ID ==
    [c \in {"<pad>", "<sos>", "<eos>", "<unk>", "Q", "A", "E", "N", "M"} |->
        CASE c = "<pad>" -> 0 [] c = "<sos>" -> 1 [] c = "<eos>" -> 2
          [] c = "<unk>" -> 3 [] c = "Q" -> 4 [] c = "A" -> 5
          [] c = "E" -> 6 [] c = "N" -> 7 [] c = "M" -> 8]

\* pinyin2char.json: "Z" is a character char2id.json does not have
PINYIN2CHAR ==
    [p \in { <<"a">>, <<"a","n">>, <<"n","a">>, <<"a","n","g">> } |->
        CASE p = <<"a">> -> <<"A", "E">>
          [] p = <<"a","n">> -> <<"N", "<unk>">>
          [] p = <<"n","a">> -> <<"M", "Z">>
          [] p = <<"a","n","g">> -> <<"Z">>]

\* chars.iter().filter_map(|ch| char2id.get(ch)).filter(|&id| id != unk_id)
char_ids(char2id, chars, unk_id) ==
    LET known == SelectSeq(chars, LAMBDA ch : ch \in DOMAIN char2id)
        ids   == [i \in 1..Len(known) |-> char2id[known[i]]]
    IN  SelectSeq(ids, LAMBDA id : id # unk_id)

\* char2id.get(name).unwrap_or(&default)
special_id(char2id, name, default) ==
    IF name \in DOMAIN char2id THEN char2id[name] ELSE default

\* VocabIndex::load_from_dir, of the fields the syllable branches of the
\* predictor read: a syllable whose characters are all unknown gets no entry
\* in pinyin2char_ids
load_from_dir(char2id, pinyin2char) ==
    [ char2id |-> char2id,
      id2char |-> [i \in Range(char2id) |-> CHOOSE c \in DOMAIN char2id : char2id[c] = i],
      pinyin2char_ids |->
          [p \in {q \in DOMAIN pinyin2char :
                     char_ids(char2id, pinyin2char[q], special_id(char2id, "<unk>", 100)) # <<>>}
             |-> char_ids(char2id, pinyin2char[p], special_id(char2id, "<unk>", 100))],
      cls_id |-> special_id(char2id, "<sos>", 101),
      unk_id |-> special_id(char2id, "<unk>", 100) ]

VOCAB == load_from_dir(CHAR2ID, PINYIN2CHAR)

(***************************************************************************)
(* ai_engine.rs: the model session.  A session answers an inference with   *)
(* an error or with a flat vector of logits, one row of vocab_size scores  *)
(* per input position.  What it answers is the environment's: a session is *)
(* [fail_len, missing_rows, table], failing on inputs of fail_len ids or   *)
(* more (0: never), leaving out missing_rows rows, scoring by table.       *)
(***************************************************************************)
\* the row width the predictor assumes (21128 in the code)
vocab_size == 9

\* score of a character id in one row
logit(table, id) ==
    CASE table = "rising"  -> id
      [] table = "falling" -> vocab_size - id

\* run_inference: Ok(logits) or Err
run_inference(session, input_ids) ==
    IF session.fail_len > 0 /\ Len(input_ids) >= session.fail_len
    THEN [ok |-> FALSE, logits |-> <<>>]
    ELSE [ok |-> TRUE,
          logits |-> [k \in 1..((Len(input_ids) - session.missing_rows) * vocab_size)
                        |-> logit(session.table, (k - 1) % vocab_size)]]

\* build_context: [CLS], then the ids of the last 50 characters of the
\* context that the vocabulary knows
build_context(vocab, context) ==
    LET last  == SubSeq(context, (IF Len(context) > 50 THEN Len(context) - 50 ELSE 0) + 1,
                        Len(context))
        known == SelectSeq(last, LAMBDA ch : ch \in DOMAIN vocab.char2id)
    IN  <<vocab.cls_id>> \o [i \in 1..Len(known) |-> vocab.char2id[known[i]]]

\* slice.sort_by(|a, b| b.score.partial_cmp(&a.score)): stable, descending
RECURSIVE sort_by_score(_)
sort_by_score(s) ==
    IF s = <<>> THEN <<>>
    ELSE LET rest == sort_by_score(SubSeq(s, 1, Len(s) - 1))
             c    == s[Len(s)]
             k    == Cardinality({i \in 1..Len(rest) : rest[i].score >= c.score})
         IN  SubSeq(rest, 1, k) \o <<c>> \o SubSeq(rest, k + 1, Len(rest))

\* the ids whose index is inside the row, each with its score
score_ids(ids, row) ==
    LET kept == SelectSeq(ids, LAMBDA id : id < Len(row))
    IN  [i \in 1..Len(kept) |-> [id |-> kept[i], score |-> row[kept[i] + 1]]]

\* logits.iter().enumerate().filter(|(i, _)| *i >= 4): every id from 4 up
unconstrained_ids(row) == [i \in 1..(Len(row) - 4) |-> i + 3]

\* filter_map(|(id, _)| vocab.id2char.get(id).map(|ch| (*id, ch.clone())))
known_chars(vocab, scored) ==
    LET kept == SelectSeq(scored, LAMBDA p : p.id \in DOMAIN vocab.id2char)
    IN  [i \in 1..Len(kept) |-> [id |-> kept[i].id, ch |-> vocab.id2char[kept[i].id]]]

\* get_top_k_constrained: the top_k best ids of the syllable's candidate ids,
\* or of all ids from 4 up when the syllable has no entry
get_top_k_constrained(row, vocab, pinyin, top_k) ==
    known_chars(vocab,
        Take(sort_by_score(score_ids(
                 IF pinyin \in DOMAIN vocab.pinyin2char_ids
                 THEN vocab.pinyin2char_ids[pinyin]
                 ELSE unconstrained_ids(row), row)), top_k))

\* &logits[offset..offset + vocab_size] with offset = (ids.len() - 1) * vocab_size
last_row(logits, ids) ==
    SubSeq(logits, (Len(ids) - 1) * vocab_size + 1, Len(ids) * vocab_size)

\* offset + vocab_size > logits.len()
too_short(logits, ids) == Len(ids) * vocab_size > Len(logits)

(***************************************************************************)
(* ai_engine.rs: run_predict_greedy.  A beam is [text, ids, score]; a      *)
(* result is [ok, ...], ok = FALSE standing for Err.                       *)
(***************************************************************************)
\* logits.get(pos).copied().unwrap_or(-50.0)
logit_at(logits, pos) == IF pos < Len(logits) THEN logits[pos + 1] ELSE -50

\* the beam extended by each character proposed for the syllable
expand_beam(beam, logits, top_chars) ==
    [i \in 1..Len(top_chars) |->
        [text  |-> Append(beam.text, top_chars[i].ch),
         ids   |-> Append(beam.ids, top_chars[i].id),
         score |-> beam.score
                   + logit_at(logits, (Len(beam.ids) - 1) * vocab_size + top_chars[i].id)]]

\* one beam of the inner loop, given the logits of its inference
beam_after_inference(vocab, syl, beam, logits, beam_width) ==
    IF too_short(logits, beam.ids) THEN <<>>
    ELSE expand_beam(beam, logits,
             get_top_k_constrained(last_row(logits, beam.ids), vocab, syl, beam_width))

beams_prepend(xs, r) == [ok |-> r.ok, beams |-> IF r.ok THEN xs \o r.beams ELSE <<>>]

RECURSIVE next_beams(_, _, _, _, _)
\* one beam of the inner loop, given the answer of its inference: an Err ends
\* the search
next_beam(session, vocab, syl, beams, beam_width, inference) ==
    IF ~inference.ok THEN [ok |-> FALSE, beams |-> <<>>]
    ELSE beams_prepend(
             beam_after_inference(vocab, syl, Head(beams), inference.logits, beam_width),
             next_beams(session, vocab, syl, Tail(beams), beam_width))

\* the inner loop over the beams
next_beams(session, vocab, syl, beams, beam_width) ==
    IF beams = <<>> THEN [ok |-> TRUE, beams |-> <<>>]
    ELSE next_beam(session, vocab, syl, beams, beam_width,
                   run_inference(session, Head(beams).ids))

RECURSIVE beam_search(_, _, _, _, _)
\* after one syllable: Err, or the loop ends with no beam extended, or the
\* beam_width best beams go on to the next syllable
beam_advance(session, vocab, rest, beams, step, beam_width) ==
    IF ~step.ok THEN [ok |-> FALSE, beams |-> <<>>]
    ELSE IF step.beams = <<>> THEN [ok |-> TRUE, beams |-> beams]
    ELSE beam_search(session, vocab, rest, Take(sort_by_score(step.beams), beam_width),
                     beam_width)

\* the loop over the syls
beam_search(session, vocab, syls, beams, beam_width) ==
    IF syls = <<>> THEN [ok |-> TRUE, beams |-> beams]
    ELSE beam_advance(session, vocab, Tail(syls), beams,
             next_beams(session, vocab, Head(syls), beams, beam_width), beam_width)

\* the beams run_predict_greedy ends with
greedy_beams(session, vocab, syls, ctx_prefix, beam_width) ==
    IF syls = <<>> THEN [ok |-> TRUE, beams |-> <<>>]
    ELSE beam_search(session, vocab, syls,
                     << [text |-> <<>>, ids |-> ctx_prefix, score |-> 0] >>, beam_width)

\* the texts of the beams, empty ones and repetitions left out
beam_texts(beams) ==
    push_unseen(<<>>, SelectSeq([i \in 1..Len(beams) |-> beams[i].text],
                                LAMBDA t : t # <<>>))

\* Ok(results) of the beams, or the Err of the search
greedy_result(g) == [ok |-> g.ok, value |-> beam_texts(g.beams)]

run_predict_greedy(session, vocab, syls, ctx_prefix, beam_width) ==
    greedy_result(greedy_beams(session, vocab, syls, ctx_prefix, beam_width))

(***************************************************************************)
(* ai_engine.rs: word_graph_segment.  words_dict is pinyin::get_dict(),    *)
(* None = <<>> before the dictionary is installed, Some(d) = <<d>>; jieba  *)
(* is the set of words jieba cuts as one word.                             *)
(***************************************************************************)
\* entry.weight as i64
as_i64(w) == w[1] * 65536 + w[2]

jieba_word_score(jieba, word) ==
    IF Len(word) = 1 THEN 0
    ELSE IF word \in jieba THEN Min2(Len(word), 4) * 750
    ELSE 0

\* the five heaviest entries of a key as graph edges from position i
edges_of(entries, i, length, jieba, divisor) ==
    [k \in 1..Len(entries) |->
        [end       |-> i + length,
         word      |-> entries[k].word,
         score     |-> as_i64(entries[k].weight)
                       + (jieba_word_score(jieba, entries[k].word) \div divisor),
         syl_count |-> length]]

RECURSIVE multi_edges(_, _, _, _, _)
\* the words of 2 to 6 syls starting at position i, shortest first
multi_edges(syls, words_dict, jieba, i, length) ==
    IF length > Min2(6, Len(syls) - i + 1) THEN <<>>
    ELSE edges_of(Take(sort_by_weight(
                      lookup(words_dict, Concat(SubSeq(syls, i, i + length - 1)))), 5),
                  i, length, jieba, 1)
         \o multi_edges(syls, words_dict, jieba, i, length + 1)

\* word_at[i]
word_at(syls, words_dict, jieba, i) ==
    multi_edges(syls, words_dict, jieba, i, 2)
    \o edges_of(Take(sort_by_weight(lookup(words_dict, syls[i])), 5), i, 1, jieba, 4)

\* an edge put before the three best paths of where it ends
edge_paths(edge, rest) ==
    [k \in 1..Min2(3, Len(rest)) |->
        [score |-> (IF edge.syl_count >= 2 THEN edge.score + edge.syl_count * 1000
                    ELSE edge.score) + rest[k].score,
         path  |-> <<edge.word>> \o rest[k].path]]

RECURSIVE retain_unseen(_, _)
\* candidates.retain(|(_, path)| seen.insert(path.concat()))
retain_unseen(cands, seen) ==
    IF cands = <<>> THEN <<>>
    ELSE IF Concat(Head(cands).path) \in seen THEN retain_unseen(Tail(cands), seen)
    ELSE <<Head(cands)>> \o retain_unseen(Tail(cands), seen \cup {Concat(Head(cands).path)})

RECURSIVE best_paths(_, _, _, _)
RECURSIVE paths_over(_, _, _, _, _)
\* the candidates of position i over the edges: an edge whose end has no
\* path is skipped
paths_over(syls, words_dict, jieba, edges, k) ==
    IF k > Len(edges) THEN <<>>
    ELSE edge_paths(edges[k], best_paths(syls, words_dict, jieba, edges[k].end))
         \o paths_over(syls, words_dict, jieba, edges, k + 1)

\* best[i], <<>> standing for None: positions count from 1, best[n + 1] is
\* the empty path
best_paths(syls, words_dict, jieba, i) ==
    IF i > Len(syls) THEN << [score |-> 0, path |-> <<>>] >>
    ELSE Take(retain_unseen(sort_by_score(
                  paths_over(syls, words_dict, jieba,
                             word_at(syls, words_dict, jieba, i), 1)), {}), 15)

\* paths.iter().take(top_k).map(|(_, words)| words.concat())
path_words(paths, top_k) ==
    [k \in 1..Min2(top_k, Len(paths)) |-> Concat(paths[k].path)]

word_graph_segment(syls, top_k, words_dict, jieba) ==
    IF syls = <<>> \/ words_dict = <<>> THEN <<>>
    ELSE path_words(best_paths(syls, words_dict[1], jieba, 1), top_k)

(***************************************************************************)
(* ai_engine.rs: run_predict.                                              *)
(***************************************************************************)
\* pinyin.rs: split_pinyin_pub
split_pinyin_pub(input) ==
    IF \E i \in 1..Len(input) : char_len(input[i]) > 1 THEN <<input>>
    ELSE split_pinyin(input)

\* dict_words.iter().filter(|w| w.chars().count() == target_len).take(3)
same_length_words(dict_words, target_len) ==
    Take(SelectSeq(dict_words, LAMBDA w : Len(w) = target_len), 3)

\* chars.into_iter().map(|(_, ch)| ch).collect()
chars_as_words(chars) == [i \in 1..Len(chars) |-> <<chars[i].ch>>]

\* the one-syllable branch, given the answer of its inference
predict_single(vocab, syl, top_k, ctx_prefix, inference) ==
    IF ~inference.ok THEN [ok |-> FALSE, value |-> <<>>]
    ELSE IF too_short(inference.logits, ctx_prefix) THEN [ok |-> FALSE, value |-> <<>>]
    ELSE [ok |-> TRUE,
          value |-> chars_as_words(get_top_k_constrained(
                        last_row(inference.logits, ctx_prefix), vocab, syl, top_k))]

\* run_predict_greedy(...).unwrap_or_default()
unwrap_or_default(r) == IF r.ok THEN r.value ELSE <<>>

\* the branch of two syllables and more: the beams first, then the
\* dictionary words of as many characters as syllables, then the word graph
predict_multi(beam_results, dict_words, graph_cands, target_len, top_k) ==
    [ok |-> TRUE,
     value |-> Take(push_unseen(push_unseen(push_unseen(<<>>, beam_results),
                                            same_length_words(dict_words, target_len)),
                                graph_cands), top_k)]

\* the letters run_predict takes for initials
INITIALS ==
    {"b", "p", "m", "f", "d", "t", "n", "l", "g", "k", "h", "j", "q", "x", "z", "c",
     "s", "r", "y", "w"}

\* pinyin.len() >= 2 && pinyin.chars().all(|c| "bpmfdtnlgkhjqxzcsryw".contains(c))
is_abbrev(pinyin) ==
    byte_len(pinyin) >= 2 /\ \A i \in 1..Len(pinyin) : pinyin[i] \in INITIALS

\* the branch of run_predict a buffer and its split select
predict_branch(pinyin, syls) ==
    IF syls = <<>> THEN IF is_abbrev(pinyin) THEN "abbreviation" ELSE "none"
    ELSE IF Len(syls) = 1 THEN "single"
    ELSE "beam"

\* run_predict after the split and the context.  The initials branch is
\* entered when the split is empty and the input has two letters or more: the
\* split of a non-empty input is never empty, so that branch returns Ok(vec![])
run_predict_split(session, vocab, syls, ctx_prefix, top_k, dict_words, words_dict, jieba) ==
    IF syls = <<>> THEN [ok |-> TRUE, value |-> <<>>]
    ELSE IF Len(syls) = 1
    THEN predict_single(vocab, syls[1], top_k, ctx_prefix, run_inference(session, ctx_prefix))
    ELSE predict_multi(
             unwrap_or_default(run_predict_greedy(session, vocab, syls, ctx_prefix, top_k)),
             dict_words, word_graph_segment(syls, 5, words_dict, jieba), Len(syls), top_k)

run_predict(session, vocab, pinyin, top_k, context, dict_words, words_dict, jieba) ==
    run_predict_split(session, vocab, split_pinyin_pub(pinyin),
                      build_context(vocab, context), top_k, dict_words, words_dict, jieba)

(***************************************************************************)
(* ai_engine.rs: run_rerank.  Scores are compared as exact fractions: the  *)
(* final score times n times the range of the model scores.                *)
(***************************************************************************)
SetMin(S) == CHOOSE x \in S : \A y \in S : x <= y

\* the model score of the first character of a candidate, -50.0 without one
ai_score(vocab, logits, offset, cand) ==
    IF cand = <<>> THEN -50
    ELSE IF cand[1] \notin DOMAIN vocab.char2id THEN -50
    ELSE logit_at(logits, offset + vocab.char2id[cand[1]])

ai_weight_of(ctx_len) ==
    IF ctx_len = 0 THEN 50 ELSE IF ctx_len <= 2 THEN 60 ELSE IF ctx_len <= 4 THEN 70 ELSE 80

len_bonus(char_count, syl_count) ==
    IF char_count = syl_count /\ char_count >= 2 THEN 20
    ELSE IF char_count = syl_count THEN 5
    ELSE 0

\* (ai_max - ai_min).max(0.1) of integer scores, as the denominator
ai_range(ai_scores) ==
    IF SetMax(Range(ai_scores)) = SetMin(Range(ai_scores)) THEN 1
    ELSE SetMax(Range(ai_scores)) - SetMin(Range(ai_scores))

\* final_score * n * ai_range of the candidate at 0-based index idx
final_score(candidates, ai_scores, idx, ai_weight, syl_count, lo, range) ==
    (100 - ai_weight) * (Len(candidates) - idx) * range
    + ai_weight * (ai_scores[idx + 1] - lo) * Len(candidates)
    + len_bonus(Len(candidates[idx + 1]), syl_count) * Len(candidates) * range

\* the candidates by final score, best first
by_final_score(candidates, ai_scores, ai_weight, syl_count) ==
    LET scored == sort_by_score(
            [i \in 1..Len(candidates) |->
                [idx |-> i - 1,
                 score |-> final_score(candidates, ai_scores, i - 1, ai_weight, syl_count,
                                       SetMin(Range(ai_scores)), ai_range(ai_scores))]])
    IN  [i \in 1..Len(scored) |-> candidates[scored[i].idx + 1]]

\* &context[context.len().saturating_sub(12)..] panics when that byte is
\* inside a character
log_slice_panics(context) ==
    /\ byte_len(context) > 12
    /\ ~\E k \in 0..Len(context) : byte_len(SubSeq(context, 1, k)) = byte_len(context) - 12

\* run_rerank after the context, given the answer of its inference
rerank_scored(vocab, syls, candidates, context, input_ids, inference) ==
    IF ~inference.ok THEN [ok |-> FALSE, value |-> <<>>, panicked |-> FALSE]
    ELSE IF Len(input_ids) - 1 > 0 /\ log_slice_panics(context)
    THEN [ok |-> FALSE, value |-> <<>>, panicked |-> TRUE]
    ELSE [ok |-> TRUE, panicked |-> FALSE,
          value |-> by_final_score(candidates,
                        [i \in 1..Len(candidates) |->
                            ai_score(vocab, inference.logits,
                                     (Len(input_ids) - 1) * vocab_size, candidates[i])],
                        ai_weight_of(Len(input_ids) - 1), Len(syls))]

run_rerank_split(session, vocab, syls, candidates, context, input_ids) ==
    IF syls = <<>> \/ candidates = <<>>
    THEN [ok |-> TRUE, value |-> candidates, panicked |-> FALSE]
    ELSE rerank_scored(vocab, syls, candidates, context, input_ids,
                       run_inference(session, input_ids))

run_rerank(session, vocab, pinyin, candidates, context) ==
    run_rerank_split(session, vocab, split_pinyin_pub(pinyin), candidates, context,
                     build_context(vocab, context))

(***************************************************************************)
(* ai_engine.rs: AIPredictor.  A predictor is [state, vocab]: state is     *)
(* "Ready" or "Unavailable", vocab is None = <<>> or Some(v) = <<v>>.  The  *)
(* session of a Ready predictor answers as the environment decides, call   *)
(* by call; a context is the buffer of a HistoryBuffer.                    *)
(***************************************************************************)
\* AIPredictor::is_available
is_available(ai) == ai.state = "Ready" /\ ai.vocab # <<>>

\* AIPredictor::predict: the list returned
AIPredictor_predict(ai, session, pinyin, context, top_k, dict_words, words_dict, jieba) ==
    IF ai.state # "Ready" THEN <<>>
    ELSE IF ai.vocab = <<>> THEN <<>>
    ELSE unwrap_or_default(run_predict(session, ai.vocab[1], pinyin, top_k,
                                       context_string(context), dict_words, words_dict, jieba))

\* Ok(r) => r, Err(e) => candidates
rerank_result(r, candidates) ==
    [value |-> IF r.ok THEN r.value ELSE candidates, panicked |-> r.panicked]

\* AIPredictor::rerank: the list returned, or the panic of the call
rerank(ai, session, pinyin, candidates, context) ==
    IF ai.state # "Ready" THEN [value |-> candidates, panicked |-> FALSE]
    ELSE IF ai.vocab = <<>> THEN [value |-> candidates, panicked |-> FALSE]
    ELSE rerank_result(run_rerank(session, ai.vocab[1], pinyin, candidates,
                                  context_string(context)), candidates)

(***************************************************************************)
(* pinyin.rs: load_dictionary and cache_ai_word over the files beside the  *)
(* executable.  The files are [txt, bin]: dict.txt is None = <<>> or       *)
(* Some([lines, eol]), eol telling whether the text ends with a newline;   *)
(* dict.bin is None = <<>> or Some(dictionary).  A process is              *)
(* [pc, dict, cache]: DICT (unset = <<>>) and AI_CACHE, flattened.         *)
(***************************************************************************)
\* the built-in corpus, used when there is no dict.txt
BUILTIN_DICT == << [pinyin |-> <<"n","a">>, word |-> <<"M">>, weight |-> 991] >>

\* the base dictionary: from dict.txt when it exists, else from the built-in
base_dictionary(fs) ==
    IF fs.txt = <<>> THEN from_text(BUILTIN_DICT) ELSE from_text(fs.txt[1].lines)

RECURSIVE merge_extras(_, _)
\* the loop over the extra dictionaries, given the merge of the first
merge_next(m, rest) ==
    IF m.panicked THEN [dict |-> m.dict, panicked |-> TRUE]
    ELSE merge_extras(m.dict, rest)

merge_extras(d, extras) ==
    IF extras = <<>> THEN [dict |-> d, panicked |-> FALSE]
    ELSE merge_next(merge_text(d, Head(extras)), Tail(extras))

\* the end of load_dictionary on the text path: dict.bin is written when the
\* write succeeds
loaded_from_text(fs, m, bin_writable) ==
    IF m.panicked THEN [dict |-> m.dict, fs |-> fs, panicked |-> TRUE]
    ELSE [dict |-> m.dict, panicked |-> FALSE,
          fs |-> IF bin_writable THEN [fs EXCEPT !.bin = <<m.dict>>] ELSE fs]

\* load_dictionary: dict.bin when it exists and deserializes, else the text
\* corpus with the extra dictionaries merged in
load_dictionary(fs, extras, bin_readable, bin_writable) ==
    IF fs.bin # <<>> /\ bin_readable
    THEN [dict |-> fs.bin[1], fs |-> fs, panicked |-> FALSE]
    ELSE loaded_from_text(fs, merge_extras(base_dictionary(fs), extras), bin_writable)

\* writeln!(f, "{},{},880") on a file opened for append: after a text that
\* does not end with a newline the new line continues the last one, whose
\* third field then no longer parses as a weight (unwrap_or(50))
append_line(file, line) ==
    IF file.eol \/ file.lines = <<>>
    THEN [lines |-> Append(file.lines, line), eol |-> TRUE]
    ELSE [lines |-> [file.lines EXCEPT ![Len(file.lines)] = [@ EXCEPT !.weight = 50]],
          eol |-> TRUE]

\* cache_ai_word in a process pr over the files fs
cache_ai_word_at(pr, fs, pinyin, word) ==
    IF pinyin = <<>> \/ word = <<>> THEN [pr |-> pr, fs |-> fs]
    ELSE IF pr.dict # <<>> /\ \E c \in Range(lookup(pr.dict[1], pinyin)) : c.word = word
    THEN [pr |-> pr, fs |-> fs]
    ELSE IF \E i \in 1..Len(pr.cache) :
                pr.cache[i].pinyin = pinyin /\ pr.cache[i].word = word
    THEN [pr |-> pr, fs |-> fs]
    ELSE [pr |-> [pr EXCEPT !.cache = Append(@, [word |-> word, weight |-> U32(880),
                                                  pinyin |-> pinyin])],
          fs |-> IF fs.txt = <<>> THEN fs
                 ELSE [fs EXCEPT !.txt = <<append_line(fs.txt[1],
                           [pinyin |-> pinyin, word |-> word, weight |-> 880])>>]]

\* lookup_with_cache: the dictionary entries, then the cached entries of the
\* key whose word is not among them
lookup_with_cache(pr, pinyin) ==
    (IF pr.dict = <<>> THEN <<>> ELSE lookup(pr.dict[1], pinyin))
    \o SelectSeq(pr.cache,
                 LAMBDA c : /\ c.pinyin = pinyin
                            /\ (pr.dict = <<>> \/
                                ~\E r \in Range(lookup(pr.dict[1], pinyin)) : r.word = c.word))

(***************************************************************************)
(* plugin_system.rs: PluginSystem.  A system is [plugins, authorized], a   *)
(* plugin [name, enabled]; the plugins directory is [exists, files, auth], *)
(* its .js files in path order, each with whether its code evaluates, and  *)
(* the names listed in .authorized.                                        *)
(***************************************************************************)
MAX_ACTIVE == 5

\* PluginSystem::new
PluginSystem_new == [plugins |-> <<>>, authorized |-> {}]

\* read_authorized: a missing file reads as no name
read_authorized(d) == IF d.exists THEN d.auth ELSE {}

\* load_file: a file whose code fails is reported and skipped by load_dir
load_file(ps, file) ==
    IF ~file.ok THEN ps
    ELSE [ps EXCEPT !.plugins =
             Append(@, [name |-> file.name, enabled |-> file.name \in ps.authorized])]

RECURSIVE load_files(_, _)
load_files(ps, paths) ==
    IF paths = <<>> THEN ps
    ELSE load_files(load_file(ps, Head(paths)), Tail(paths))

load_dir(ps, d) ==
    IF ~d.exists THEN [ps EXCEPT !.authorized = read_authorized(d)]
    ELSE load_files([ps EXCEPT !.authorized = read_authorized(d)], d.files)

active_count(ps) ==
    Cardinality({i \in 1..Len(ps.plugins) : ps.plugins[i].enabled})

\* plugins.iter().position(|p| p.name == name): 0 for None
plugin_position(ps, name) ==
    IF \E i \in 1..Len(ps.plugins) : ps.plugins[i].name = name
    THEN CHOOSE i \in 1..Len(ps.plugins) :
            /\ ps.plugins[i].name = name
            /\ \A j \in 1..(i - 1) : ps.plugins[j].name # name
    ELSE 0

\* write_authorized
write_authorized(ps, d) == [d EXCEPT !.auth = ps.authorized]

\* toggle from the slot check on
toggle_slot(ps, d, idx) ==
    IF active_count(ps) >= MAX_ACTIVE
    THEN [ps |-> ps, dir |-> d, result |-> "SlotsFull"]
    ELSE [ps |-> [ps EXCEPT !.plugins[idx].enabled = TRUE], dir |-> d,
          result |-> "Enabled"]

\* toggle; yes is the user's answer to the authorization box, when it is shown
toggle(ps, d, name, yes) ==
    IF plugin_position(ps, name) = 0
    THEN [ps |-> ps, dir |-> d, result |-> "Denied"]
    ELSE IF ps.plugins[plugin_position(ps, name)].enabled
    THEN [ps |-> [ps EXCEPT !.plugins[plugin_position(ps, name)].enabled = FALSE],
          dir |-> d, result |-> "Disabled"]
    ELSE IF name \notin ps.authorized
    THEN IF ~yes THEN [ps |-> ps, dir |-> d, result |-> "Denied"]
         ELSE toggle_slot([ps EXCEPT !.authorized = @ \cup {name}],
                          write_authorized([ps EXCEPT !.authorized = @ \cup {name}], d),
                          plugin_position(ps, name))
    ELSE toggle_slot(ps, d, plugin_position(ps, name))
(***************************************************************************)
(* The keystroke pipeline as a state machine.                              *)
(***************************************************************************)
\* key events the hook receives in one run, threads running beside it
MaxEvents == 3

\* spawned threads alive at once: key-processing threads that have not run
\* yet and neural jobs in flight
MaxThreads == 2

\* key events of one run in which every key is processed before the next
MaxTyped == 4

\* the keys pressed in the runs modelled: A, backspace, space, 2, escape,
\* left Shift
KeyDowns == {65, 8, 32, 50, 27, 160}

\* the keys released in the runs modelled: left Shift
KeyUps == {160}

\* the keys pressed when typing slowly: those above and N, enter, page-next, Tab
TypedDowns == KeyDowns \cup {78, 13, 34, 9}

\* every virtual-key code
VKeys == 0..255

\* user_dict.txt as found at start: two words learned for "a"
StoreFile == (<< <<"a">>, <<"E">> >> :> 2) @@ (<< <<"a">>, <<"N">> >> :> 1)

\* the model file found at start
AiModels == {"absent", "m1"}

\* config.rs: default_top_k
CFG_TOP_K == 9

SegVars == << segIn, segOut, segAgain, segAlts, segPc >>

\* the variables of the specifications of single components
DictVars == << dictText, dict, dictLog, dictPc >>

HistVars == << hist, histLog, histPc >>

PredVars == << predictor, predLog, predPc >>

RunVars == << files, proc, runLog >>

PlugVars == << plugin_sys, plugin_dir, plugLog >>

EngVars == << engine, engLog >>

GraphVars == << graphLog >>

UnitVars == << DictVars, HistVars, PredVars, RunVars, PlugVars, EngVars, GraphVars >>

LogVars == << hookLog, commitLog, mergeLog, viewLog, applyLog, undoLog, shiftLog >>

InputVars == << raw, syllables, current_candidates, all_candidates, page_offset,
                chinese_mode, shift_down, shift_modified, ai_generation,
                last_commit, backspace_count, history, ai_cache, dict_appended,
                view, injected >>

ThreadVars == << key_threads, workers, nEvents >>

NoHook == [vk |-> 0, down |-> FALSE, eaten |-> FALSE, chinese |-> TRUE,
           has_input |-> FALSE, held |-> FALSE, clean |-> FALSE, toggled |-> FALSE]

NoApply == [n |-> 0, last |-> <<>>, max |-> 0, stale |-> FALSE]

NoUndo == [active |-> FALSE, py |-> <<>>, word |-> <<>>, bs |-> 0,
           other |-> FALSE, unlearns |-> 0, unl |-> <<>>]

\* the ImeState main() builds before the hook is installed
Ime0 == [ raw |-> <<>>, syllables |-> <<>>,
          current_candidates |-> <<>>, all_candidates |-> <<>>, page_offset |-> 0,
          chinese_mode |-> TRUE, shift_down |-> FALSE, shift_modified |-> FALSE,
          ai_generation |-> 0, last_commit |-> <<>>, backspace_count |-> 0,
          user_dict |-> StoreFile, history |-> <<>>, ai_cache |-> <<>>,
          dict_appended |-> <<>>,
          view |-> [visible |-> FALSE, raw |-> <<>>, cands |-> <<>>, page |-> <<>>],
          injected |-> <<>>, workers |-> {}, commitLog |-> <<>>, mergeLog |-> <<>>,
          viewLog |-> [pending |-> 0, by |-> {}] ]

InitLogs ==
    /\ key_threads = {} /\ nEvents = 0
    /\ hookLog = NoHook /\ applyLog = NoApply /\ undoLog = NoUndo
    /\ shiftLog = [held |-> FALSE, clean |-> FALSE]

InitDictIdle ==
    dictText = DictText /\ dict = DICT /\ dictLog = <<>> /\ dictPc = "idle"

InitHistIdle ==
    /\ hist = [buf |-> <<>>, capacity |-> HISTORY_CAPACITY]
    /\ histLog = <<>> /\ histPc = "idle"

\* no call of the predictor yet
NoCall == [op |-> "none", before |-> [state |-> "Unavailable", vocab |-> <<>>],
           failed |-> FALSE, multi |-> FALSE, candidates |-> <<>>, result |-> <<>>,
           fallback |-> <<>>, proposals |-> {}, after_failure |-> FALSE,
           pinyin |-> <<>>, branch |-> "none"]

InitPredIdle ==
    /\ predictor = [state |-> "Unavailable", vocab |-> <<>>]
    /\ predLog = NoCall /\ predPc = "idle"

\* no run recorded yet
NoRuns == [starts |-> 0, earlier |-> {}, now |-> {}, fresh |-> FALSE, extras |-> <<>>]

InitRunIdle ==
    /\ files = [txt |-> <<>>, bin |-> <<>>]
    /\ proc = [pc |-> "idle", dict |-> <<>>, cache |-> <<>>]
    /\ runLog = NoRuns

\* no call of the plugin system yet
NoToggle == [op |-> "none", name |-> "", result |-> "", active |-> 0,
             enabled |-> FALSE, starts |-> 0]

InitPlugIdle ==
    /\ plugin_sys = <<>>
    /\ plugin_dir = [exists |-> FALSE, files |-> <<>>, auth |-> {}]
    /\ plugLog = NoToggle

\* no call on the engine yet
NoEngineCall == [op |-> "none", n |-> 0, ch |-> "",
                 before |-> [raw |-> <<>>, syllables |-> <<>>]]

InitEngIdle ==
    /\ engine = [raw |-> <<>>, syllables |-> <<>>]
    /\ engLog = NoEngineCall

\* no call of word_graph_segment yet
NoGraphCall == [pc |-> "idle", syllables |-> <<>>, words_dict |-> <<>>, jieba |-> {},
                top_k |-> 0, paths |-> <<>>, out |-> <<>>]

InitGraphIdle == graphLog = NoGraphCall

\* no component is run on its own
InitUnitsIdle ==
    /\ InitDictIdle
    /\ InitHistIdle
    /\ InitPredIdle
    /\ InitRunIdle
    /\ InitPlugIdle
    /\ InitEngIdle
    /\ InitGraphIdle

InitSegIdle ==
    /\ segIn = <<>> /\ segOut = <<>> /\ segAgain = <<>> /\ segAlts = <<>>
    /\ segPc = "idle"

Init ==
    /\ ai_model \in AiModels
    /\ ai_first = TRUE
    /\ StateIs(Ime0)
    /\ InitLogs
    /\ InitSegIdle
    /\ storeLog = <<>>
    /\ InitUnitsIdle

\* low_level_keyboard_hook on WM_KEYDOWN / WM_SYSKEYDOWN
HookDown(vkey) ==
    LET r      == hook_key_down(Ime, vkey)
        s      == r.state
        passBs == vkey = 8 /\ chinese_mode /\ raw = <<>>
        unl    == s.user_dict # user_dict \/
                  (passBs /\ last_commit # <<>> /\ s.last_commit = <<>>)
    IN  /\ Becomes(s)
        /\ workers' = workers
        /\ key_threads' = IF r.eaten
                          THEN key_threads \cup {[id |-> nEvents + 1, vkey |-> vkey]}
                          ELSE key_threads
        /\ hookLog' = [vk |-> vkey, down |-> TRUE, eaten |-> r.eaten,
                       chinese |-> chinese_mode, has_input |-> raw # <<>>,
                       held |-> shiftLog.held, clean |-> shiftLog.clean,
                       toggled |-> s.chinese_mode # chinese_mode]
        /\ shiftLog' = IF IsShift(vkey)
                       THEN IF shiftLog.held THEN shiftLog
                            ELSE [held |-> TRUE, clean |-> TRUE]
                       ELSE [shiftLog EXCEPT !.clean = FALSE]
        /\ undoLog' =
             IF ~undoLog.active THEN undoLog
             ELSE LET u1 == IF passBs THEN [undoLog EXCEPT !.bs = @ + 1]
                            ELSE IF vkey # 8 THEN [undoLog EXCEPT !.other = TRUE]
                            ELSE undoLog
                  IN  IF unl
                      THEN [u1 EXCEPT
                              !.unlearns = @ + 1,
                              !.unl = <<[py |-> last_commit[1].py,
                                         word |-> last_commit[1].word,
                                         bs |-> u1.bs, other |-> u1.other,
                                         trace |-> s.last_commit,
                                         count |-> s.backspace_count]>>]
                      ELSE u1
        /\ nEvents' = nEvents + 1
        /\ applyLog' = applyLog
        /\ UNCHANGED << ai_model, ai_first, SegVars, storeLog, UnitVars >>

\* low_level_keyboard_hook on WM_KEYUP / WM_SYSKEYUP
HookUp(vkey) ==
    LET s == hook_key_up(Ime, vkey)
    IN  /\ Becomes(s)
        /\ hookLog' = [vk |-> vkey, down |-> FALSE, eaten |-> FALSE,
                       chinese |-> chinese_mode, has_input |-> raw # <<>>,
                       held |-> shiftLog.held, clean |-> shiftLog.clean,
                       toggled |-> s.chinese_mode # chinese_mode]
        /\ shiftLog' = IF IsShift(vkey) THEN [held |-> FALSE, clean |-> FALSE]
                       ELSE shiftLog
        /\ nEvents' = nEvents + 1
        /\ UNCHANGED << key_threads, workers, applyLog, undoLog,
                        ai_model, ai_first, SegVars, storeLog, UnitVars >>

\* the hook receives a key-down while spawned threads may still be running
HookKeyDown(vkey) ==
    /\ nEvents < MaxEvents
    /\ hook_key_down(Ime, vkey).eaten =>
           Cardinality(key_threads) + Cardinality(workers) < MaxThreads
    /\ HookDown(vkey)

\* the hook receives a key-up while spawned threads may still be running
HookKeyUp(vkey) ==
    /\ nEvents < MaxEvents
    /\ HookUp(vkey)

\* one spawned key-processing thread runs cb_process_key
ProcessKey(t) ==
    /\ t \in key_threads
    /\ \E s \in cb_process_key(Ime, t.vkey, t.id) :
            /\ Becomes(credited(s, t.id, "sync"))
            /\ workers' = {[w EXCEPT !.overtaken =
                               @ \/ (w \in workers /\ t.id > w.key)] :
                               w \in s.workers}
            /\ undoLog' = IF s.commitLog # commitLog
                          THEN [NoUndo EXCEPT !.active = TRUE,
                                              !.py = s.commitLog[1].py,
                                              !.word = s.commitLog[1].word]
                          ELSE undoLog
    /\ key_threads' = key_threads \ {t}
    /\ UNCHANGED << nEvents, hookLog, applyLog, shiftLog,
                    ai_model, ai_first, SegVars, storeLog, UnitVars >>

\* a neural job reads the history and runs predict
WorkerPredict(w) ==
    /\ w \in workers /\ w.pc = "predict"
    /\ LET ai_top_k  == Min2(CFG_TOP_K, 9)
           ai_scored == predict(ai_model, w.raw, context_string(history), ai_top_k,
                                w.dict)
       IN  workers' = (workers \ {w}) \cup
                          {[w EXCEPT !.pc = "check", !.ai_scored = ai_scored]}
    /\ UNCHANGED << InputVars, user_dict, key_threads, nEvents, LogVars,
                    ai_model, ai_first, SegVars, storeLog, UnitVars >>

\* a neural job compares the generation counter with the one it captured
WorkerCheck(w) ==
    /\ w \in workers /\ w.pc = "check"
    /\ workers' = IF ai_generation # w.gen THEN workers \ {w}
                  ELSE (workers \ {w}) \cup {[w EXCEPT !.pc = "apply"]}
    /\ UNCHANGED << InputVars, user_dict, key_threads, nEvents, LogVars,
                    ai_model, ai_first, SegVars, storeLog, UnitVars >>

\* a neural job that found the counter unchanged merges and updates the view
WorkerApply(w) ==
    /\ w \in workers /\ w.pc = "apply"
    /\ \E learned \in get_learned_words(user_dict, w.raw) :
            LET ai        == w.ai_scored
                merged    == merge_async(learned, ai, w.dict)
                s2 == apply_merged(Ime, w.raw, merged)
                s3 == [s2 EXCEPT !.mergeLog =
                          <<[path |-> "async", raw |-> w.raw, store |-> user_dict,
                             learned |-> learned, ai |-> ai, dict |-> w.dict,
                             merged |-> merged]>>]
            IN  /\ Becomes(credited(s3, w.key, "async"))
                /\ applyLog' =
                     [n     |-> applyLog.n + 1,
                      last  |-> <<[gen |-> w.gen, counter |-> ai_generation,
                                   overtaken |-> w.overtaken,
                                   changed |-> \/ s3.view # view
                                               \/ s3.all_candidates # all_candidates
                                               \/ s3.page_offset # page_offset]>>,
                      max   |-> IF w.gen > applyLog.max THEN w.gen ELSE applyLog.max,
                      stale |-> applyLog.stale \/ w.gen < applyLog.max]
    /\ workers' = workers \ {w}
    /\ UNCHANGED << key_threads, nEvents, hookLog, undoLog, shiftLog,
                    ai_model, ai_first, SegVars, storeLog, UnitVars >>

Next ==
    \/ \E vkey \in KeyDowns : HookKeyDown(vkey)
    \/ \E vkey \in KeyUps : HookKeyUp(vkey)
    \/ \E t \in key_threads : ProcessKey(t)
    \/ \E w \in workers : WorkerPredict(w)
    \/ \E w \in workers : WorkerCheck(w)
    \/ \E w \in workers : WorkerApply(w)

Spec == Init /\ [][Next]_vars

(***************************************************************************)
(* The same pipeline when the user types slowly: every spawned thread has  *)
(* finished before the hook receives the next key event.                   *)
(***************************************************************************)
TypeKeyDown(vkey) ==
    /\ nEvents < MaxTyped
    /\ key_threads = {} /\ workers = {}
    /\ HookDown(vkey)

TypeKeyUp(vkey) ==
    /\ nEvents < MaxTyped
    /\ key_threads = {} /\ workers = {}
    /\ HookUp(vkey)

NextTyping ==
    \/ \E vkey \in TypedDowns : TypeKeyDown(vkey)
    \/ \E vkey \in KeyUps : TypeKeyUp(vkey)
    \/ \E t \in key_threads : ProcessKey(t)
    \/ \E w \in workers : WorkerPredict(w)
    \/ \E w \in workers : WorkerCheck(w)
    \/ \E w \in workers : WorkerApply(w)

SpecTyping == Init /\ [][NextTyping]_vars

(***************************************************************************)
(* The hook's decision on one key event, for every virtual-key code, in    *)
(* either mode, with the buffer empty or holding "a".                      *)
(***************************************************************************)
InitHook ==
    /\ ai_model = "absent"
    /\ ai_first = TRUE
    /\ \E s \in {Ime0} \cup cb_process_key(Ime0, 65, 0), mode \in BOOLEAN :
           StateIs([s EXCEPT !.chinese_mode = mode])
    /\ InitLogs
    /\ InitSegIdle
    /\ storeLog = <<>>
    /\ InitUnitsIdle

ClassifyKeyDown(vkey) ==
    /\ nEvents = 0
    /\ HookDown(vkey)

ClassifyKeyUp(vkey) ==
    /\ nEvents = 0
    /\ HookUp(vkey)

NextHook ==
    \/ \E vkey \in VKeys : ClassifyKeyDown(vkey)
    \/ \E vkey \in VKeys : ClassifyKeyUp(vkey)

SpecHook == InitHook /\ [][NextHook]_vars

(***************************************************************************)
(* The segmenter as a function of its input.                               *)
(***************************************************************************)
InitIdlePipeline ==
    /\ ai_model = "absent"
    /\ ai_first = TRUE
    /\ StateIs(Ime0)
    /\ InitLogs

InitSeg ==
    /\ InitIdlePipeline
    /\ segIn \in SeqsUpTo(SegLetters, MaxSegLen) \cup SegMoreInputs
    /\ segOut = <<>> /\ segAgain = <<>> /\ segAlts = <<>> /\ segPc = "input"
    /\ storeLog = <<>>
    /\ InitUnitsIdle

\* split_pinyin on the input
SegSplit ==
    /\ segPc = "input"
    /\ segOut' = split_pinyin(segIn)
    /\ segPc' = "split"
    /\ UNCHANGED << InputVars, user_dict, ThreadVars, LogVars, ai_model, ai_first,
                    segIn, segAgain, segAlts, storeLog, UnitVars >>

\* split_pinyin on the concatenation of its own output
SegResplit ==
    /\ segPc = "split"
    /\ segAgain' = split_pinyin(Concat(segOut))
    /\ segPc' = "done"
    /\ UNCHANGED << InputVars, user_dict, ThreadVars, LogVars, ai_model, ai_first,
                    segIn, segOut, segAlts, storeLog, UnitVars >>

\* split_pinyin_ambiguous on the input, with the greedy segmentation it
\* compares against
SegAmbiguous ==
    /\ segPc = "input"
    /\ segAlts' = split_pinyin_ambiguous(segIn)
    /\ segOut' = split_pinyin(segIn)
    /\ segPc' = "alts"
    /\ UNCHANGED << InputVars, user_dict, ThreadVars, LogVars, ai_model, ai_first,
                    segIn, segAgain, storeLog, UnitVars >>

NextSeg == SegSplit \/ SegResplit \/ SegAmbiguous

SpecSeg == InitSeg /\ [][NextSeg]_vars

(***************************************************************************)
(* The user store as a data type: one learn, then the unlearn of it.       *)
(***************************************************************************)
\* the largest count a store starts with
MaxCount == 2

StorePinyins == {<<"a">>, <<"a", "n">>}

StoreWords == {<<"A">>, <<"E">>}

\* every store over the pairs above with counts 1..MaxCount
Stores ==
    UNION { [K -> 1..MaxCount] : K \in SUBSET (StorePinyins \X StoreWords) }

StoreVars == << raw, syllables, current_candidates, all_candidates, page_offset,
                chinese_mode, shift_down, shift_modified, ai_generation,
                last_commit, backspace_count, history, ai_cache, dict_appended,
                view, injected, ThreadVars, LogVars, ai_model, ai_first, SegVars,
                UnitVars >>

InitStore ==
    /\ ai_model = "absent"
    /\ ai_first = TRUE
    /\ \E d \in Stores : StateIs([Ime0 EXCEPT !.user_dict = d])
    /\ InitLogs
    /\ InitSegIdle
    /\ storeLog = <<>>
    /\ InitUnitsIdle

\* UserDict::learn, with what the store answered before it
StoreLearn(pinyin, word) ==
    /\ storeLog = <<>>
    /\ user_dict' = learn(user_dict, pinyin, word)
    /\ storeLog' = <<[op |-> "learn", pinyin |-> pinyin, word |-> word,
                      before |-> user_dict,
                      weight |-> get_weight(user_dict, pinyin, word),
                      words |-> get_learned_words(user_dict, pinyin)]>>
    /\ UNCHANGED StoreVars

\* UserDict::unlearn of the pair just learned
StoreUnlearn ==
    /\ Len(storeLog) = 1
    /\ user_dict' = unlearn(user_dict, storeLog[1].pinyin, storeLog[1].word)
    /\ storeLog' = Append(storeLog, [storeLog[1] EXCEPT !.op = "unlearn",
                                                        !.before = user_dict])
    /\ UNCHANGED StoreVars

NextStore ==
    \/ \E pinyin \in StorePinyins, word \in StoreWords : StoreLearn(pinyin, word)
    \/ StoreUnlearn

SpecStore == InitStore /\ [][NextStore]_vars

(***************************************************************************)
(* The dictionary as a data type: from_text on a corpus, then merge_text   *)
(* and boost_weight calls.                                                 *)
(***************************************************************************)
\* calls made on one dictionary after it is loaded
MaxDictOps == 2

\* dict.txt: two buckets with ties and out-of-order weights, a pair listed
\* twice, an u-umlaut, upper-case letters, a digit, and fields left empty
LoadTexts ==
    { << [pinyin |-> <<"a","n">>,         word |-> <<"N">>, weight |-> 90],
         [pinyin |-> <<"a","n">>,         word |-> <<"M">>, weight |-> 100],
         [pinyin |-> <<"a">>,             word |-> <<"A">>, weight |-> 100],
         [pinyin |-> <<"n","U+00FC">>,    word |-> <<"V">>, weight |-> 70],
         [pinyin |-> <<"a","n","a">>,     word |-> <<"Q">>, weight |-> 100] >>,
      << [pinyin |-> <<"a">>,             word |-> <<"A">>, weight |-> 50],
         [pinyin |-> <<"a">>,             word |-> <<"A">>, weight |-> 60],
         [pinyin |-> <<"3">>,             word |-> <<"X">>, weight |-> 50],
         [pinyin |-> <<"A","n","3">>,     word |-> <<"N">>, weight |-> 60],
         [pinyin |-> <<>>,                word |-> <<"W">>, weight |-> 50],
         [pinyin |-> <<"a","n">>,         word |-> <<>>,    weight |-> 50] >> }

\* supplementary dictionaries
MergeTexts ==
    { << [pinyin |-> <<"n","a">>,         word |-> <<"Y">>, weight |-> 100],
         [pinyin |-> <<"a","n">>,         word |-> <<"N">>, weight |-> 10],
         [pinyin |-> <<"n","a">>,         word |-> <<"Y">>, weight |-> 5],
         [pinyin |-> <<"A","n">>,         word |-> <<"K">>, weight |-> 100],
         [pinyin |-> <<"a","n","a">>,     word |-> <<"R">>, weight |-> 100],
         [pinyin |-> <<>>,                word |-> <<"W">>, weight |-> 50] >>,
      << [pinyin |-> <<"a","3">>,         word |-> <<"Z">>, weight |-> 60] >>,
      << [pinyin |-> <<"a">>,             word |-> <<"E">>, weight |-> 100],
         [pinyin |-> <<"n","U+00FC">>,    word |-> <<"V">>, weight |-> 60] >> }

BoostPinyins == {<<"a","n">>, <<"a">>, <<"o">>}

BoostWords == {<<"N">>, <<"A">>, <<"K">>}

\* nothing, a little, and almost the whole u32 range
BoostAmounts == {U32(0), U32(10), <<65535, 65500>>}

InitDict ==
    /\ InitIdlePipeline
    /\ InitSegIdle
    /\ storeLog = <<>>
    /\ InitHistIdle
    /\ InitPredIdle
    /\ InitRunIdle
    /\ InitPlugIdle
    /\ InitEngIdle
    /\ InitGraphIdle
    /\ dictText \in LoadTexts
    /\ dict = from_text(dictText)
    /\ dictLog = <<>>
    /\ dictPc = "loaded"

DictFrame ==
    UNCHANGED << InputVars, user_dict, ThreadVars, LogVars, ai_model, ai_first,
                 SegVars, storeLog, HistVars, PredVars, RunVars,
                 PlugVars, EngVars, GraphVars >>

\* Dictionary::merge_text on a supplementary dictionary
DictMerge(text) ==
    /\ dictPc = "loaded" /\ Len(dictLog) < MaxDictOps
    /\ dictText' = dictText
    /\ LET r == merge_text(dict, text)
       IN  /\ dict' = IF r.panicked THEN dict ELSE r.dict
           /\ dictPc' = IF r.panicked THEN "panicked" ELSE "loaded"
           /\ dictLog' = Append(dictLog,
                              [op |-> "merge", text |-> text, added |-> r.added,
                               panicked |-> r.panicked, before |-> dict])
    /\ DictFrame

\* Dictionary::boost_weight
DictBoost(pinyin, word, amount) ==
    /\ dictPc = "loaded" /\ Len(dictLog) < MaxDictOps
    /\ dict' = boost_weight(dict, pinyin, word, amount)
    /\ dictPc' = dictPc
    /\ dictText' = dictText
    /\ dictLog' = Append(dictLog,
                         [op |-> "boost", pinyin |-> pinyin, word |-> word,
                          amount |-> amount, before |-> dict])
    /\ DictFrame

NextDict ==
    \/ \E text \in MergeTexts : DictMerge(text)
    \/ \E pinyin \in BoostPinyins, word \in BoostWords, amount \in BoostAmounts :
           DictBoost(pinyin, word, amount)

SpecDict == InitDict /\ [][NextDict]_vars

(***************************************************************************)
(* The history buffer as a data type: new(capacity), then pushes.          *)
(***************************************************************************)
\* the largest capacity a buffer is created with
MaxCapacity == 3

\* push calls on one buffer
MaxPushes == 4

\* the strings pushed: the empty string, a character, a word
HistTexts == {<<>>, <<"A">>, <<"B", "C">>}

InitHist ==
    /\ InitIdlePipeline
    /\ InitSegIdle
    /\ storeLog = <<>>
    /\ InitDictIdle
    /\ InitPredIdle
    /\ InitRunIdle
    /\ InitPlugIdle
    /\ InitEngIdle
    /\ InitGraphIdle
    /\ \E capacity \in 0..MaxCapacity : hist = [buf |-> <<>>, capacity |-> capacity]
    /\ histLog = <<>>
    /\ histPc = "ok"

\* HistoryBuffer::push
HistPush(text) ==
    /\ histPc = "ok" /\ Len(histLog) < MaxPushes
    /\ hist' = push(hist, text).h
    /\ histPc' = IF push(hist, text).panicked THEN "panicked" ELSE "ok"
    /\ histLog' = Append(histLog, text)
    /\ UNCHANGED << InputVars, user_dict, ThreadVars, LogVars, ai_model, ai_first,
                    SegVars, storeLog, DictVars, PredVars, RunVars,
                 PlugVars, EngVars, GraphVars >>

NextHist == \E text \in HistTexts : HistPush(text)

SpecHist == InitHist /\ [][NextHist]_vars

(***************************************************************************)
(* The predictor as a data type: AIPredictor::new, then predict and rerank *)
(* calls whose model session answers as the environment decides.           *)
(***************************************************************************)
\* the sessions of the calls: two that answer every inference, one that
\* fails every inference, one that fails from the third input id on, one
\* that leaves out the last row of logits
CallSessions ==
    { [fail_len |-> 0, missing_rows |-> 0, table |-> "rising"],
      [fail_len |-> 0, missing_rows |-> 0, table |-> "falling"],
      [fail_len |-> 1, missing_rows |-> 0, table |-> "rising"],
      [fail_len |-> 3, missing_rows |-> 0, table |-> "falling"],
      [fail_len |-> 0, missing_rows |-> 1, table |-> "rising"] }

\* the buffers typed: empty, one and two syllables with and without an entry
\* in the candidate table ("i" is no syllable, "ang" has no known character),
\* and two initials
CallPinyins ==
    { <<>>, <<"a">>, <<"i">>, <<"a","n","g">>, <<"a","a">>, <<"a","n","a">>, <<"i","a">>,
      <<"w","m">> }

\* history buffers: empty and one character
CallContexts == { <<>>, << <<"A">> >> }

\* a history of thirteen bytes that begins with a two-byte character
LongContext == << <<"U+00FC">>, <<"A","A","A","A","A","A">>, <<"A","A","A","A","A">> >>

CallTopKs == {1, 2}

\* the dictionary words handed to predict
CallDictWords == { <<>>, << <<"A","A">>, <<"E">>, <<"A","N">> >> }

\* get_dict() and jieba: no dictionary installed, the dictionary with a
\* jieba that knows none of its words, and with one that knows "AA"
CallGraphs ==
    { [words_dict |-> <<>>, jieba |-> {}],
      [words_dict |-> <<DICT>>, jieba |-> {}],
      [words_dict |-> <<DICT>>, jieba |-> { <<"A","A">> }] }

\* the candidate lists handed to rerank
CallCandidates ==
    { <<>>, << <<"A">>, <<"E">>, <<"A","A">> >>, << <<"E">>, <<"Z">>, <<"M">> >> }

InitPredictor ==
    /\ InitIdlePipeline
    /\ InitSegIdle
    /\ storeLog = <<>>
    /\ InitDictIdle
    /\ InitHistIdle
    /\ InitRunIdle
    /\ InitPlugIdle
    /\ InitEngIdle
    /\ InitGraphIdle
    /\ predictor \in [state : {"Ready", "Unavailable"}, vocab : {<<>>, <<VOCAB>>}]
    /\ predLog = NoCall
    /\ predPc = "ok"

PredFrame ==
    UNCHANGED << InputVars, user_dict, ThreadVars, LogVars, ai_model, ai_first,
                 SegVars, storeLog, DictVars, HistVars, RunVars,
                 PlugVars, EngVars, GraphVars >>

\* the pairs <<token, character id>> of the characters proposed
single_proposals(vocab, syl, top_k, ctx_prefix, inference) ==
    IF ~inference.ok \/ too_short(inference.logits, ctx_prefix) THEN {}
    ELSE { <<syl, c.id>> :
             c \in Range(get_top_k_constrained(last_row(inference.logits, ctx_prefix),
                                               vocab, syl, top_k)) }

beam_proposals(syls, ctx_prefix, beams) ==
    { <<syls[p[2]], beams[p[1]].ids[Len(ctx_prefix) + p[2]]>> :
        p \in { q \in (1..Len(beams)) \X (1..Len(syls)) : q[2] <= Len(beams[q[1]].text) } }

\* what a predict call on a ready predictor leaves in the log, given the
\* answer of the one inference of a single syllable and the beams of several:
\* whether run_predict or the beam search got an Err, and what was proposed
predict_record(pinyin, vocab, syls, ctx_prefix, top_k, fallback, result, inference, g) ==
    [op |-> "predict", before |-> predictor,
     pinyin |-> pinyin, branch |-> predict_branch(pinyin, syls),
     failed |-> IF syls = <<>> THEN FALSE
                ELSE IF Len(syls) = 1
                THEN ~inference.ok \/ too_short(inference.logits, ctx_prefix)
                ELSE ~g.ok,
     multi |-> Len(syls) >= 2, candidates |-> <<>>, result |-> result,
     fallback |-> IF Len(syls) >= 2 THEN fallback ELSE <<>>,
     proposals |-> IF syls = <<>> THEN {}
                   ELSE IF Len(syls) = 1
                   THEN single_proposals(vocab, syls[1], top_k, ctx_prefix, inference)
                   ELSE beam_proposals(syls, ctx_prefix, g.beams),
     after_failure |-> predLog.failed \/ predLog.after_failure]

\* the log of a predict call after the split and the context
predict_logged(session, pinyin, vocab, syls, ctx_prefix, top_k, dict_words, graph, result) ==
    predict_record(pinyin, vocab, syls, ctx_prefix, top_k,
        push_unseen(same_length_words(dict_words, Len(syls)),
                    word_graph_segment(syls, 5, graph.words_dict, graph.jieba)),
        result, run_inference(session, ctx_prefix),
        greedy_beams(session, vocab, syls, ctx_prefix, top_k))

\* AIPredictor::predict
PredictCall(session, pinyin, context, top_k, dict_words, graph) ==
    /\ predPc = "ok"
    /\ predictor' = predictor
    /\ predLog' =
          IF is_available(predictor)
          THEN predict_logged(session, pinyin, predictor.vocab[1], split_pinyin_pub(pinyin),
                   build_context(predictor.vocab[1], context_string(context)), top_k,
                   dict_words, graph,
                   AIPredictor_predict(predictor, session, pinyin, context, top_k,
                                       dict_words, graph.words_dict, graph.jieba))
          ELSE [NoCall EXCEPT !.op = "predict", !.before = predictor,
                   !.result = AIPredictor_predict(predictor, session, pinyin, context, top_k,
                                                  dict_words, graph.words_dict, graph.jieba),
                   !.after_failure = predLog.failed \/ predLog.after_failure]
    /\ predPc' = "ok"
    /\ PredFrame

\* whether run_rerank got an Err
rerank_failed(session, vocab, pinyin, candidates, context) ==
    /\ split_pinyin_pub(pinyin) # <<>> /\ candidates # <<>>
    /\ ~run_inference(session, build_context(vocab, context)).ok

\* AIPredictor::rerank
RerankCall(session, pinyin, candidates, context) ==
    /\ predPc = "ok"
    /\ predictor' = predictor
    /\ predLog' =
          [NoCall EXCEPT !.op = "rerank", !.before = predictor,
              !.failed = /\ is_available(predictor)
                         /\ rerank_failed(session, predictor.vocab[1], pinyin, candidates,
                                          context_string(context)),
              !.candidates = candidates,
              !.result = rerank(predictor, session, pinyin, candidates, context).value,
              !.after_failure = predLog.failed \/ predLog.after_failure]
    /\ predPc' = IF rerank(predictor, session, pinyin, candidates, context).panicked
                 THEN "panicked" ELSE "ok"
    /\ PredFrame

NextPredictor ==
    \/ \E session \in CallSessions, pinyin \in CallPinyins, context \in CallContexts,
          top_k \in CallTopKs, dict_words \in CallDictWords, graph \in CallGraphs :
          PredictCall(session, pinyin, context, top_k, dict_words, graph)
    \/ \E session \in CallSessions, pinyin \in CallPinyins,
          candidates \in CallCandidates, context \in CallContexts \cup {LongContext} :
          RerankCall(session, pinyin, candidates, context)

SpecPredictor == InitPredictor /\ [][NextPredictor]_vars

(***************************************************************************)
(* The program over its files: starts (init_global_dict), cache_ai_word    *)
(* calls while it runs, and exits, which lose DICT and AI_CACHE.           *)
(***************************************************************************)
\* starts of the program
MaxStarts == 2

\* words cached over all runs
MaxCached == 2

\* the extra dictionaries of the configuration that are found: none, or one
RunExtras == { <<>>, << << [pinyin |-> <<"n","a">>, word |-> <<"Y">>, weight |-> 100] >> >> }

RunPinyins == { <<"a","n">>, <<"a","a">> }

\* words cached: one the dictionary has for "an", two it has not
RunWords == { <<"N">>, <<"X">>, <<"E","A">> }

InitRestart ==
    /\ InitIdlePipeline
    /\ InitSegIdle
    /\ storeLog = <<>>
    /\ InitDictIdle
    /\ InitHistIdle
    /\ InitPredIdle
    /\ InitPlugIdle
    /\ InitEngIdle
    /\ InitGraphIdle
    /\ \/ files = [txt |-> <<>>, bin |-> <<>>]
       \/ \E eol \in BOOLEAN :
             files = [txt |-> << [lines |-> DictText, eol |-> eol] >>, bin |-> <<>>]
    /\ proc = [pc |-> "stopped", dict |-> <<>>, cache |-> <<>>]
    /\ runLog = NoRuns

RunFrame ==
    UNCHANGED << InputVars, user_dict, ThreadVars, LogVars, ai_model, ai_first,
                 SegVars, storeLog, DictVars, HistVars, PredVars, PlugVars, EngVars, GraphVars >>

\* main: init_global_dict(&cfg.dict.extra)
RunStart(extras, bin_readable, bin_writable) ==
    /\ proc.pc = "stopped" /\ runLog.starts < MaxStarts
    /\ proc' = [pc |-> IF load_dictionary(files, extras, bin_readable, bin_writable).panicked
                       THEN "panicked" ELSE "running",
                dict |-> << load_dictionary(files, extras, bin_readable, bin_writable).dict >>,
                cache |-> <<>>]
    /\ files' = load_dictionary(files, extras, bin_readable, bin_writable).fs
    /\ runLog' = [runLog EXCEPT !.starts = @ + 1, !.fresh = TRUE, !.extras = extras]
    /\ RunFrame

\* cache_ai_word in the running program
RunCache(pinyin, word) ==
    /\ proc.pc = "running"
    /\ Cardinality(runLog.earlier \cup runLog.now) < MaxCached
    /\ proc' = cache_ai_word_at(proc, files, pinyin, word).pr
    /\ files' = cache_ai_word_at(proc, files, pinyin, word).fs
    /\ runLog' = [runLog EXCEPT
                     !.fresh = FALSE,
                     !.now = IF cache_ai_word_at(proc, files, pinyin, word).pr.cache # proc.cache
                             THEN @ \cup {<<pinyin, word>>} ELSE @]
    /\ RunFrame

\* the program exits: its statics are gone, the files stay
RunExit ==
    /\ proc.pc = "running"
    /\ proc' = [pc |-> "stopped", dict |-> <<>>, cache |-> <<>>]
    /\ files' = files
    /\ runLog' = [runLog EXCEPT !.fresh = FALSE, !.earlier = @ \cup runLog.now, !.now = {}]
    /\ RunFrame

NextRestart ==
    \/ \E extras \in RunExtras, bin_readable \in BOOLEAN, bin_writable \in BOOLEAN :
          RunStart(extras, bin_readable, bin_writable)
    \/ \E pinyin \in RunPinyins, word \in RunWords : RunCache(pinyin, word)
    \/ RunExit

SpecRestart == InitRestart /\ [][NextRestart]_vars

(***************************************************************************)
(* Paging: the pipeline of Spec when the enabled plugins hand back lists   *)
(* longer than a page.                                                     *)
(***************************************************************************)
\* the lengths of the lists the plugins return: none, one word, a full page,
\* a page and a word, two pages and a word
PageLengths == {0, 1, 9, 10, 19}

\* n distinct one-letter words
CandidateList(n) == [i \in 1..n |-> << ALPHABET[i] >>]

PageLists == { CandidateList(n) : n \in PageLengths }

\* Escape, Space, PageDown, PageUp, '=' and '-'
PagingKeys == {27, 32, 34, 33, 187, 189}

\* the hook eats the letter and its thread runs cb_process_key, in which
\* plugins.transform_candidates returns dict_after
PluginType(vkey, dict_after) ==
    /\ key_threads = {}
    /\ Cardinality(workers) < MaxThreads
    /\ hook_key_down(Ime, vkey).eaten
    /\ LET h == hook_key_down(Ime, vkey).state
           d == process_result(h, h.raw, handle_key_down(EngineOf(h), vkey))
       IN  /\ d.refresh /\ d.state.raw # <<>>
           /\ \E learned \in get_learned_words(d.state.user_dict, d.state.raw) :
                 LET s == refresh_merge(d.state, learned, nEvents + 1, dict_after)
                 IN  /\ Becomes(credited(s, nEvents + 1, "sync"))
                     /\ workers' = {[w EXCEPT !.overtaken = @ \/ w \in workers] :
                                        w \in s.workers}
    /\ nEvents' = nEvents + 1
    /\ UNCHANGED << key_threads, hookLog, applyLog, undoLog, shiftLog,
                    ai_model, ai_first, SegVars, storeLog, UnitVars >>

PageType(vkey, dict_after) ==
    /\ nEvents < MaxEvents
    /\ PluginType(vkey, dict_after)

NextPaging ==
    \/ \E dict_after \in PageLists : PageType(65, dict_after)
    \/ \E vkey \in PagingKeys : HookKeyDown(vkey)
    \/ \E vkey \in KeyUps : HookKeyUp(vkey)
    \/ \E t \in key_threads : ProcessKey(t)
    \/ \E w \in workers : WorkerPredict(w)
    \/ \E w \in workers : WorkerCheck(w)
    \/ \E w \in workers : WorkerApply(w)

SpecPaging == Init /\ [][NextPaging]_vars

(***************************************************************************)
(* The plugin system over starts of the program: main loads the plugins    *)
(* directory, the tray menu toggles plugins, the program exits and the     *)
(* directory stays.                                                        *)
(***************************************************************************)
\* the .js files of the directory, one more than MAX_ACTIVE, in path order
PluginNames == <<"p1", "p2", "p3", "p4", "p5", "p6">>

\* the directory with the files of broken failing to evaluate
PluginFiles(broken) ==
    [i \in 1..Len(PluginNames) |->
        [name |-> PluginNames[i], ok |-> PluginNames[i] \notin broken]]

\* the names the menu can send: the files and one that is not loaded
ToggleNames == Range(PluginNames) \cup {"px"}

\* a fresh installation: no directory, or a directory with no .authorized
InitPlugins ==
    /\ InitIdlePipeline
    /\ InitSegIdle
    /\ storeLog = <<>>
    /\ InitDictIdle
    /\ InitHistIdle
    /\ InitPredIdle
    /\ InitRunIdle
    /\ plugin_sys = <<>>
    /\ \/ plugin_dir = [exists |-> FALSE, files |-> <<>>, auth |-> {}]
       \/ \E broken \in {{}, {"p3"}} :
             plugin_dir = [exists |-> TRUE, files |-> PluginFiles(broken), auth |-> {}]
    /\ plugLog = NoToggle
    /\ InitEngIdle
    /\ InitGraphIdle

PlugFrame ==
    UNCHANGED << InputVars, user_dict, ThreadVars, LogVars, ai_model, ai_first,
                 SegVars, storeLog, DictVars, HistVars, PredVars, RunVars,
                 EngVars, GraphVars >>

\* main: PluginSystem::new() and plugins.load_dir(&plugins_dir)
PlugStart ==
    /\ plugin_sys = <<>> /\ plugLog.starts < MaxStarts
    /\ plugin_sys' = << load_dir(PluginSystem_new, plugin_dir) >>
    /\ plugin_dir' = plugin_dir
    /\ plugLog' = [NoToggle EXCEPT !.op = "load_dir", !.starts = plugLog.starts + 1]
    /\ PlugFrame

\* cb_plugin_toggle: state.plugins.toggle(name, hwnd)
PlugToggle(name, yes) ==
    /\ plugin_sys # <<>>
    /\ plugin_sys' = << toggle(plugin_sys[1], plugin_dir, name, yes).ps >>
    /\ plugin_dir' = toggle(plugin_sys[1], plugin_dir, name, yes).dir
    /\ plugLog' = [op |-> "toggle", name |-> name,
                   result |-> toggle(plugin_sys[1], plugin_dir, name, yes).result,
                   active |-> active_count(plugin_sys[1]),
                   enabled |-> \E i \in 1..Len(plugin_sys[1].plugins) :
                                  /\ plugin_sys[1].plugins[i].name = name
                                  /\ plugin_sys[1].plugins[i].enabled,
                   starts |-> plugLog.starts]
    /\ PlugFrame

\* the program exits: the system is gone, the directory stays
PlugExit ==
    /\ plugin_sys # <<>>
    /\ plugin_sys' = <<>>
    /\ plugin_dir' = plugin_dir
    /\ plugLog' = [NoToggle EXCEPT !.op = "exit", !.starts = plugLog.starts]
    /\ PlugFrame

NextPlugins ==
    \/ PlugStart
    \/ \E name \in ToggleNames, yes \in BOOLEAN : PlugToggle(name, yes)
    \/ PlugExit

SpecPlugins == InitPlugins /\ [][NextPlugins]_vars

(***************************************************************************)
(* The dispatch of refresh_candidates when key-processing threads overlap. *)
(* ImeState is reached through the raw pointer GLOBAL_STATE with no lock,   *)
(* so `state.ai_generation += 1; let gen = state.ai_generation;` of one    *)
(* thread is a load, a store and a capture among the accesses of the       *)
(* others.  A dispatch in flight is kept with the jobs: pc is "load",      *)
(* "store" or "capture" and gen holds the thread's register.               *)
(***************************************************************************)
\* the jobs that have been spawned
Jobs == {w \in workers : w.pc \in {"predict", "check", "apply"}}

\* the dispatches in flight
Dispatching == {w \in workers : w.pc \in {"load", "store", "capture"}}

\* a key-processing thread runs cb_process_key up to the increment of the
\* counter, or to its end when it dispatches nothing
DispatchKey(t) ==
    /\ t \in key_threads
    /\ \E s \in cb_process_key(Ime, t.vkey, t.id) :
            /\ Becomes(credited([s EXCEPT !.ai_generation = ai_generation],
                                t.id, "sync"))
            /\ workers' = {[w EXCEPT !.overtaken =
                               @ \/ (w \in workers /\ t.id > w.key)] :
                               w \in workers}
                          \cup {[w EXCEPT !.pc = "load", !.gen = 0] :
                                   w \in s.workers \ workers}
            /\ undoLog' = IF s.commitLog # commitLog
                          THEN [NoUndo EXCEPT !.active = TRUE,
                                              !.py = s.commitLog[1].py,
                                              !.word = s.commitLog[1].word]
                          ELSE undoLog
    /\ key_threads' = key_threads \ {t}
    /\ UNCHANGED << nEvents, hookLog, applyLog, shiftLog,
                    ai_model, ai_first, SegVars, storeLog, UnitVars >>

DispatchFrame ==
    UNCHANGED << raw, syllables, current_candidates, all_candidates, page_offset,
                 chinese_mode, shift_down, shift_modified, last_commit,
                 backspace_count, history, ai_cache, dict_appended, view, injected,
                 user_dict, key_threads, nEvents, LogVars,
                 ai_model, ai_first, SegVars, storeLog, UnitVars >>

\* the thread reads the counter
DispatchLoad(w) ==
    /\ w \in workers /\ w.pc = "load"
    /\ workers' = (workers \ {w}) \cup
                      {[w EXCEPT !.pc = "store", !.gen = ai_generation]}
    /\ ai_generation' = ai_generation
    /\ DispatchFrame

\* the thread writes the value it read, plus one
DispatchStore(w) ==
    /\ w \in workers /\ w.pc = "store"
    /\ ai_generation' = w.gen + 1
    /\ workers' = (workers \ {w}) \cup
                      {[w EXCEPT !.pc = "capture", !.gen = w.gen + 1]}
    /\ DispatchFrame

\* gen is taken from the register or read again, and the job is spawned
DispatchCapture(w) ==
    /\ w \in workers /\ w.pc = "capture"
    /\ \E gen \in {w.gen, ai_generation} :
          workers' = (workers \ {w}) \cup {[w EXCEPT !.pc = "predict", !.gen = gen]}
    /\ ai_generation' = ai_generation
    /\ DispatchFrame

NextDispatch ==
    \/ \E vkey \in KeyDowns : HookKeyDown(vkey)
    \/ \E vkey \in KeyUps : HookKeyUp(vkey)
    \/ \E t \in key_threads : DispatchKey(t)
    \/ \E w \in workers : DispatchLoad(w)
    \/ \E w \in workers : DispatchStore(w)
    \/ \E w \in workers : DispatchCapture(w)
    \/ \E w \in workers : WorkerPredict(w)
    \/ \E w \in workers : WorkerCheck(w)
    \/ \E w \in workers : WorkerApply(w)

SpecDispatch == Init /\ [][NextDispatch]_vars

(***************************************************************************)
(* The predictor of ImeState among the threads.  state.ai is reached       *)
(* through GLOBAL_STATE by the key-processing threads (the synchronous      *)
(* predict of a one-syllable buffer) and by the neural jobs; a job's       *)
(* predict takes time, so it is a step that enters and a step that leaves. *)
(***************************************************************************)
\* the jobs inside state.ai.predict
Predicting == {w \in workers : w.pc = "predicting"}

\* a job reads the history and enters predict
SessionEnter(w) ==
    /\ w \in workers /\ w.pc = "predict"
    /\ LET ai_top_k  == Min2(CFG_TOP_K, 9)
           ai_scored == predict(ai_model, w.raw, context_string(history), ai_top_k,
                                w.dict)
       IN  workers' = (workers \ {w}) \cup
                          {[w EXCEPT !.pc = "predicting", !.ai_scored = ai_scored]}
    /\ UNCHANGED << InputVars, user_dict, key_threads, nEvents, LogVars,
                    ai_model, ai_first, SegVars, storeLog, UnitVars >>

\* predict returns to the job
SessionLeave(w) ==
    /\ w \in workers /\ w.pc = "predicting"
    /\ workers' = (workers \ {w}) \cup {[w EXCEPT !.pc = "check"]}
    /\ UNCHANGED << InputVars, user_dict, key_threads, nEvents, LogVars,
                    ai_model, ai_first, SegVars, storeLog, UnitVars >>

NextSession ==
    \/ \E vkey \in KeyDowns : HookKeyDown(vkey)
    \/ \E vkey \in KeyUps : HookKeyUp(vkey)
    \/ \E t \in key_threads : ProcessKey(t)
    \/ \E w \in workers : SessionEnter(w)
    \/ \E w \in workers : SessionLeave(w)
    \/ \E w \in workers : WorkerCheck(w)
    \/ \E w \in workers : WorkerApply(w)

SpecSession == Init /\ [][NextSession]_vars

(***************************************************************************)
(* The word cache in use: a plugin offers a three-character word for "a",  *)
(* the user commits it (cache_ai_word runs), takes it back with            *)
(* backspaces, and types "a" again; every thread finishes before the next  *)
(* key.                                                                    *)
(***************************************************************************)
\* key events of one run
MaxCacheKeys == 6

\* what plugins.transform_candidates returns for "a"
CacheLists == { << <<"A", "E", "A">> >>, << <<"A">>, <<"A", "E", "A">> >> }

\* '1', '3', Backspace, Space
CacheKeys == {49, 51, 8, 32}

CacheType(dict_after) ==
    /\ nEvents < MaxCacheKeys
    /\ workers = {}
    /\ PluginType(65, dict_after)

CacheKeyDown(vkey) ==
    /\ nEvents < MaxCacheKeys
    /\ key_threads = {} /\ workers = {}
    /\ HookDown(vkey)

NextCache ==
    \/ \E dict_after \in CacheLists : CacheType(dict_after)
    \/ \E vkey \in CacheKeys \cup {65} : CacheKeyDown(vkey)
    \/ \E t \in key_threads : ProcessKey(t)
    \/ \E w \in workers : WorkerPredict(w)
    \/ \E w \in workers : WorkerCheck(w)
    \/ \E w \in workers : WorkerApply(w)

SpecCache == Init /\ [][NextCache]_vars

(***************************************************************************)
(* A PinyinEngine on its own: any sequence of push, pop, clear and         *)
(* consume_syllables, with any character pushed.                           *)
(***************************************************************************)
\* longest raw buffer
MaxRawLen == 4

\* characters handed to push: letters, a capital, a digit, an apostrophe
EngineChars == {"a", "n", "g", "A", "1", "'"}

InitEngine ==
    /\ InitIdlePipeline
    /\ InitSegIdle
    /\ storeLog = <<>>
    /\ InitDictIdle
    /\ InitHistIdle
    /\ InitPredIdle
    /\ InitRunIdle
    /\ InitPlugIdle
    /\ InitGraphIdle
    /\ engine = EmptyEngine
    /\ engLog = NoEngineCall

EngineFrame ==
    UNCHANGED << InputVars, user_dict, ThreadVars, LogVars, ai_model, ai_first,
                 SegVars, storeLog, DictVars, HistVars, PredVars, RunVars,
                 PlugVars, GraphVars >>

EnginePush(ch) ==
    /\ Len(engine.raw) < MaxRawLen
    /\ engine' = engine_push(engine, ch)
    /\ engLog' = [op |-> "push", n |-> 0, ch |-> ch, before |-> engine]
    /\ EngineFrame

EnginePop ==
    /\ engine' = engine_pop(engine)
    /\ engLog' = [op |-> "pop", n |-> 0, ch |-> "", before |-> engine]
    /\ EngineFrame

EngineClear ==
    /\ engine' = engine_clear(engine)
    /\ engLog' = [op |-> "clear", n |-> 0, ch |-> "", before |-> engine]
    /\ EngineFrame

EngineConsume(n) ==
    /\ engine' = consume_syllables(engine, n)
    /\ engLog' = [op |-> "consume_syllables", n |-> n, ch |-> "", before |-> engine]
    /\ EngineFrame

NextEngine ==
    \/ \E ch \in EngineChars : EnginePush(ch)
    \/ EnginePop
    \/ EngineClear
    \/ \E n \in 0..MaxRawLen : EngineConsume(n)

SpecEngine == InitEngine /\ [][NextEngine]_vars

(***************************************************************************)
(* word_graph_segment on its own: one call on a syllable sequence, with    *)
(* the dictionary get_dict() returns and the words jieba keeps whole.      *)
(***************************************************************************)
\* a corpus with a second, heavier word for "aa"
GraphText == DictText \o << [pinyin |-> <<"a","a">>, word |-> <<"E","E">>, weight |-> 500] >>

\* get_dict(): none installed, the program's dictionary, and the second corpus
GraphDicts == { <<>>, <<DICT>>, <<from_text(GraphText)>> }

\* the words jieba.cut leaves in one piece
GraphJiebas == { {}, { <<"A","A">> }, { <<"A","A">>, <<"E","E">> } }

\* syllable sequences: empty, covered, and with a syllable of no entry ("i")
GraphSyllables ==
    { <<>>, << <<"a">> >>, << <<"a">>, <<"a">> >>, << <<"a">>, <<"n","a">> >>,
      << <<"n","a">>, <<"a">>, <<"a">> >>, << <<"a">>, <<"a">>, <<"a">> >>,
      << <<"i">> >>, << <<"a">>, <<"i">> >> }

GraphTopKs == {1, 3, 9}

InitGraph ==
    /\ InitIdlePipeline
    /\ InitSegIdle
    /\ storeLog = <<>>
    /\ InitDictIdle
    /\ InitHistIdle
    /\ InitPredIdle
    /\ InitRunIdle
    /\ InitPlugIdle
    /\ InitEngIdle
    /\ \E syls \in GraphSyllables, d \in GraphDicts, j \in GraphJiebas, k \in GraphTopKs :
           graphLog = [NoGraphCall EXCEPT !.pc = "ready", !.syllables = syls,
                                          !.words_dict = d, !.jieba = j, !.top_k = k]

\* the scored paths behind the sentences returned
graph_paths(syls, top_k, words_dict, jieba) ==
    IF syls = <<>> \/ words_dict = <<>> THEN <<>>
    ELSE Take(best_paths(syls, words_dict[1], jieba, 1), top_k)

GraphSegment ==
    /\ graphLog.pc = "ready"
    /\ graphLog' = [graphLog EXCEPT
           !.pc = "done",
           !.paths = graph_paths(graphLog.syllables, graphLog.top_k,
                                 graphLog.words_dict, graphLog.jieba),
           !.out = word_graph_segment(graphLog.syllables, graphLog.top_k,
                                      graphLog.words_dict, graphLog.jieba)]
    /\ UNCHANGED << InputVars, user_dict, ThreadVars, LogVars, ai_model, ai_first,
                    SegVars, storeLog, DictVars, HistVars, PredVars, RunVars,
                    PlugVars, EngVars >>

NextGraph == GraphSegment

SpecGraph == InitGraph /\ [][NextGraph]_vars

(***************************************************************************)
(* Properties of the asynchronous pipeline.                                *)
(***************************************************************************)
\* C1: the result of a neural job is applied only while the generation
\* counter equals the value the job captured at dispatch, and once the
\* result of a later generation has been applied no result of an earlier
\* generation is applied, under every interleaving of the threads.
C1_AppliedOnlyWhenCurrent ==
    applyLog.last # <<>> =>
        /\ applyLog.last[1].gen = applyLog.last[1].counter
        /\ ~applyLog.stale

\* C2: once a later keystroke has been processed (its synchronous result is
\* shown, or the view was hidden by Escape, by a commit that emptied the
\* buffer or by an empty refresh), a neural job dispatched for an earlier
\* keystroke that completes afterwards changes neither the view nor
\* all_candidates / page_offset.
C2_LateJobChangesNothing ==
    applyLog.last # <<>> =>
        ~(applyLog.last[1].overtaken /\ applyLog.last[1].changed)

C4_EatDecision ==
    (nEvents > 0 /\ hookLog.down) =>
        LET vk == hookLog.vk
        IN  hookLog.eaten <=>
              /\ hookLog.chinese
              /\ vk \notin {16, 160, 161}
              /\ \/ vk >= 65 /\ vk <= 90
                 \/ /\ hookLog.has_input
                    /\ \/ vk \in {8, 32, 27, 13}
                       \/ vk >= 49 /\ vk <= 57
                       \/ vk \in {34, 187}
                       \/ vk \in {33, 189}

\* page-next eaten with a letter in the buffer
C4_PageKeyEaten ==
    /\ nEvents > 0 /\ hookLog.down /\ hookLog.vk = 34
    /\ hookLog.chinese /\ hookLog.has_input /\ hookLog.eaten
    /\ key_threads # {}

\* C5: the mode toggles on a Shift key-up iff no non-Shift key-down arrived
\* between the first key-down of that Shift and the key-up, also when the
\* Shift key-down is repeated in between.
C5_ToggleIffShiftAlone ==
    (nEvents > 0 /\ ~hookLog.down /\ IsShift(hookLog.vk) /\ hookLog.held) =>
        (hookLog.toggled <=> hookLog.clean)

\* C6: a toggle from Chinese to English with a non-empty buffer injects
\* exactly the raw letters, empties the buffer and hides the view; with an
\* empty buffer it injects nothing and hides the view.
C6_ToggleFlushesBuffer ==
    [][ (chinese_mode /\ ~chinese_mode') =>
            /\ raw' = <<>> /\ syllables' = <<>>
            /\ ~view'.visible
            /\ injected' = IF raw # <<>> THEN Append(injected, raw)
                           ELSE injected ]_vars

\* the toggle to English has just sent the pending letters
C6_FlushReached ==
    /\ nEvents > 0 /\ ~hookLog.down /\ hookLog.toggled
    /\ hookLog.chinese /\ hookLog.has_input
    /\ ~chinese_mode /\ raw = <<>>
    /\ injected # <<>>

\* C7: after the commit by index of w for p, unlearn(p, w) is invoked exactly
\* when the pass-through backspaces since the commit reach the character
\* count of w with no non-backspace key in between; it is invoked at most
\* once per commit, and the trace is cleared and backspace_count reset.
C7_UnlearnExactlyOnDeletion ==
    /\ undoLog.unlearns <= 1
    /\ undoLog.unl # <<>> =>
           LET u == undoLog.unl[1]
           IN  /\ u.py = undoLog.py /\ u.word = undoLog.word
               /\ u.bs = Len(u.word)
               /\ ~u.other
               /\ u.trace = <<>> /\ u.count = 0
    /\ (undoLog.active /\ ~undoLog.other /\ undoLog.bs >= Len(undoLog.word)) =>
           undoLog.unlearns = 1

(***************************************************************************)
(* Properties of the user store.                                           *)
(***************************************************************************)
\* C8: learn(p, w) followed by unlearn(p, w) leaves the entries of the store
\* and all their counts as they were before the two calls: an entry the learn
\* created is removed, and get_weight(p, w) and get_learned_words(p) answer
\* what they answered before.
C8_UnlearnInvertsLearn ==
    Len(storeLog) = 2 =>
        LET l == storeLog[1]
        IN  /\ DOMAIN user_dict = DOMAIN l.before
            /\ \A k \in DOMAIN user_dict : user_dict[k] = l.before[k]
            /\ get_weight(user_dict, l.pinyin, l.word) = l.weight
            /\ get_learned_words(user_dict, l.pinyin) = l.words

\* the learn created the entry and the unlearn removed it
C8_CreatedEntryRemoved ==
    /\ Len(storeLog) = 2
    /\ << storeLog[1].pinyin, storeLog[1].word >> \notin DOMAIN storeLog[1].before
    /\ << storeLog[1].pinyin, storeLog[1].word >> \in DOMAIN storeLog[2].before
    /\ << storeLog[1].pinyin, storeLog[1].word >> \notin DOMAIN user_dict

(***************************************************************************)
(* Properties of the merge.                                                *)
(***************************************************************************)
\* the positions of seq holding the first occurrence of their element
FirstPositions(seq) ==
    {i \in 1..Len(seq) : \A j \in 1..(i - 1) : seq[j] # seq[i]}

\* C9: the merged list is the user's words for the buffer by count
\* descending, then the neural words, then the dictionary words after the
\* plugins, each word kept at its first occurrence only, so it holds no
\* duplicate; the asynchronous merge follows the same law as the synchronous.
C9_MergeLaw ==
    mergeLog # <<>> =>
        LET m   == mergeLog[1]
            lw  == [i \in 1..Len(m.learned) |-> m.learned[i].word]
            all == lw \o m.ai \o m.dict
            P   == FirstPositions(all)
        IN  /\ Len(m.learned) = Cardinality({k \in DOMAIN m.store : k[1] = m.raw})
            /\ \A i \in 1..Len(m.learned) :
                   /\ << m.raw, m.learned[i].word >> \in DOMAIN m.store
                   /\ m.learned[i].count = m.store[<< m.raw, m.learned[i].word >>]
            /\ \A i \in 1..(Len(m.learned) - 1) :
                   /\ m.learned[i].count >= m.learned[i + 1].count
                   /\ m.learned[i].word # m.learned[i + 1].word
            /\ Len(m.merged) = Cardinality(P)
            /\ \A i \in P :
                   m.merged[Cardinality({j \in P : j <= i})] = all[i]
            /\ \A i, j \in 1..Len(m.merged) :
                   i # j => m.merged[i] # m.merged[j]

\* a neural job merged three overlapping sources
C9_AsyncMergeReached ==
    /\ mergeLog # <<>>
    /\ mergeLog[1].path = "async"
    /\ Len(mergeLog[1].learned) >= 2
    /\ mergeLog[1].ai # <<>>
    /\ Len(mergeLog[1].merged) <
           Len(mergeLog[1].learned) + Len(mergeLog[1].ai) + Len(mergeLog[1].dict)
    /\ all_candidates = mergeLog[1].merged

(***************************************************************************)
(* Properties of the segmenter.                                            *)
(***************************************************************************)
\* C10: the concatenation of the segmentation of a buffer is the buffer, no
\* token is empty, segmenting the concatenation of a segmentation gives the
\* same segmentation, and the empty buffer segments to the empty sequence.
C10_SegmentationRoundTrip ==
    /\ segPc \in {"split", "done"} =>
           /\ Concat(segOut) = segIn
           /\ \A i \in 1..Len(segOut) : segOut[i] # <<>>
           /\ segIn = <<>> => segOut = <<>>
    /\ segPc = "done" => segAgain = segOut

\* a buffer split into a long syllable, a letter that starts none, and more
C10_MixedSplitReached ==
    /\ segPc = "done"
    /\ Len(segOut) >= 3
    /\ \E i \in 1..Len(segOut) : Len(segOut[i]) >= 2
    /\ \E i \in 1..Len(segOut) : ~is_valid_syllable(segOut[i])

\* (1-based) position of token k of the segmentation in the buffer
TokenStart(k) == 1 + Len(Concat(SubSeq(segOut, 1, k - 1)))

\* the slice of the buffer of length l at position p
SliceAt(p, l) == SubSeq(segIn, p, p + l - 1)

\* C11: segmentation is greedy longest-match from the left: every token is
\* the longest slice at its position, of length min(6, remaining) down to 1,
\* that is a valid syllable; when no slice at the position is valid the token
\* is the single letter there; every multi-letter token is a valid syllable.
C11_GreedyLongestMatch ==
    segPc \in {"split", "done"} =>
        \A k \in 1..Len(segOut) :
            LET p      == TokenStart(k)
                remain == Len(segIn) - p + 1
                lens   == {l \in 1..Min2(6, remain) : SliceAt(p, l) \in VALID_SYLLABLES}
            IN  /\ segOut[k] = SliceAt(p, Len(segOut[k]))
                /\ lens # {} => /\ Len(segOut[k]) \in lens
                                /\ \A l \in lens : l <= Len(segOut[k])
                /\ lens = {} => Len(segOut[k]) = 1
                /\ Len(segOut[k]) >= 2 => segOut[k] \in VALID_SYLLABLES

\* a buffer longer than six letters whose first token has a shorter valid
\* prefix
C11_LongestChosenReached ==
    /\ segPc = "split"
    /\ Len(segIn) > 6
    /\ Len(segOut[1]) >= 4
    /\ \E l \in 1..(Len(segOut[1]) - 1) : SliceAt(1, l) \in VALID_SYLLABLES

RECURSIVE AllValidSplits(_)
\* every way to cut s into valid syllables
AllValidSplits(s) ==
    IF s = <<>> THEN {<<>>}
    ELSE UNION { { <<SubSeq(s, 1, l)>> \o r : r \in AllValidSplits(SubSeq(s, l + 1, Len(s))) } :
                   l \in {m \in 1..Min2(6, Len(s)) : SubSeq(s, 1, m) \in VALID_SYLLABLES} }

\* C12: the alternative-segmentations query returns at most five
\* segmentations, each concatenating to the input, made of valid syllables
\* only and different from the greedy segmentation, none returned twice; when
\* fewer than five are returned, every non-greedy all-valid split of the
\* buffer is among them.
C12_AlternativesLaw ==
    segPc = "alts" =>
        /\ Len(segAlts) <= 5
        /\ \A i \in 1..Len(segAlts) :
               /\ Concat(segAlts[i]) = segIn
               /\ \A k \in 1..Len(segAlts[i]) : segAlts[i][k] \in VALID_SYLLABLES
               /\ segAlts[i] # segOut
        /\ \A i, j \in 1..Len(segAlts) : i # j => segAlts[i] # segAlts[j]
        /\ Len(segAlts) < 5 =>
               AllValidSplits(segIn) \ {segOut} \subseteq Range(segAlts)

\* the same law for the buffers of three letters and more
C12_AlternativesLawFromThree ==
    Len(segIn) >= 3 => C12_AlternativesLaw

\* the search was cut at five results
C12_FiveAlternativesReached ==
    /\ segPc = "alts"
    /\ Len(segAlts) = 5
    /\ Cardinality(AllValidSplits(segIn)) > 6

(***************************************************************************)
(* Properties of the dictionary.                                           *)
(***************************************************************************)
\* only merge_text was called on the loaded dictionary
OnlyMerges == \A i \in 1..Len(dictLog) : dictLog[i].op = "merge"

\* the first letters of the segmentation of a key
InitialsOf(key) ==
    LET seg == split_pinyin(key) IN [i \in 1..Len(seg) |-> Head(seg[i])]

\* C13: after from_text and after any merge_text, every stored candidate is
\* returned by lookup of its pinyin, by lookup_prefix of each of its prefixes
\* of length 1..min(6, len), and by lookup_abbreviation of its initials when
\* these have two letters or more and differ from the pinyin; and every query
\* returns only candidates that satisfy its condition.
C13_IndicesComplete ==
    (dictPc # "idle" /\ OnlyMerges) =>
        /\ \A i \in 1..Len(dict.all) :
               LET c == dict.all[i]
                   a == InitialsOf(c.pinyin)
               IN  /\ c \in Range(lookup(dict, c.pinyin))
                   /\ \A l \in 1..Min2(6, Len(c.pinyin)) :
                          c \in Range(lookup_prefix(dict, SubSeq(c.pinyin, 1, l)))
                   /\ (Len(a) >= 2 /\ a # c.pinyin) =>
                          c \in Range(lookup_abbreviation(dict, a))
        /\ \A k \in DOMAIN dict.exact :
               \A c \in Range(lookup(dict, k)) :
                   c.pinyin = k /\ c \in Range(dict.all)
        /\ \A k \in DOMAIN dict.prefix :
               \A c \in Range(lookup_prefix(dict, k)) :
                   /\ Len(k) <= Len(c.pinyin) /\ SubSeq(c.pinyin, 1, Len(k)) = k
                   /\ c \in Range(dict.all)
        /\ \A k \in DOMAIN dict.abbrev :
               \A c \in Range(lookup_abbreviation(dict, k)) :
                   /\ InitialsOf(c.pinyin) = k /\ Len(k) >= 2 /\ k # c.pinyin
                   /\ c \in Range(dict.all)

\* a merge added several entries, one of them reachable by its initials
C13_MergedEntryIndexed ==
    /\ dictLog # <<>>
    /\ dictLog[Len(dictLog)].op = "merge"
    /\ dictLog[Len(dictLog)].added >= 3
    /\ \E i \in (Len(dictLog[Len(dictLog)].before.all) + 1)..Len(dict.all) :
           /\ Len(dict.all[i].pinyin) = 3
           /\ InitialsOf(dict.all[i].pinyin) \in DOMAIN dict.abbrev

\* a sequence of candidates is sorted by weight, descending
WeightDescending(cs) ==
    \A i \in 1..(Len(cs) - 1) : U32Geq(cs[i].weight, cs[i + 1].weight)

\* the position at which the pair (key, word) was first inserted
InsertPos(key, word) ==
    CHOOSE i \in 1..Len(dict.all) :
        /\ dict.all[i].pinyin = key /\ dict.all[i].word = word
        /\ \A j \in 1..(i - 1) :
               ~(dict.all[j].pinyin = key /\ dict.all[j].word = word)

\* entries of equal weight of the bucket of key are in insertion order
\* (for the words the bucket holds once)
TiesInInsertionOrder(key) ==
    LET b    == dict.exact[key]
        once == {w \in {b[i].word : i \in 1..Len(b)} :
                    Cardinality({i \in 1..Len(b) : b[i].word = w}) = 1}
    IN  \A i, j \in 1..Len(b) :
            (i < j /\ b[i].weight = b[j].weight
                   /\ b[i].word \in once /\ b[j].word \in once)
                => InsertPos(key, b[i].word) < InsertPos(key, b[j].word)

\* every exact bucket and every prefix and abbreviation answer is sorted by
\* weight, descending
AllWeightDescending ==
    /\ \A k \in DOMAIN dict.exact : WeightDescending(dict.exact[k])
    /\ \A k \in DOMAIN dict.prefix : WeightDescending(lookup_prefix(dict, k))
    /\ \A k \in DOMAIN dict.abbrev : WeightDescending(lookup_abbreviation(dict, k))

\* C14: after from_text and after any sequence of boost and merge_text
\* calls, every exact bucket is ordered by weight descending with entries of
\* equal weight in their insertion order, and lookup_prefix and
\* lookup_abbreviation answer sorted by weight descending.
C14_BucketsOrdered ==
    dictPc # "idle" =>
        /\ AllWeightDescending
        /\ \A k \in DOMAIN dict.exact : TiesInInsertionOrder(k)

\* the same law with the ties required only while no boost was made
C14_OrderedTiesUntilBoost ==
    dictPc # "idle" =>
        /\ AllWeightDescending
        /\ OnlyMerges => \A k \in DOMAIN dict.exact : TiesInInsertionOrder(k)

\* the (pinyin, word) pairs present in exact
PairsOf(d) == UNION { {<<k, d.exact[k][i].word>> : i \in 1..Len(d.exact[k])} :
                      k \in DOMAIN d.exact }

\* the (pinyin, word) pairs of the usable lines of a supplementary text
PairsOfText(text) ==
    { <<to_lowercase(text[i].pinyin), text[i].word>> :
        i \in {j \in 1..Len(text) : text[j].pinyin # <<>> /\ text[j].word # <<>>} }

\* two dictionaries answer every query alike
SameAnswers(d1, d2) ==
    /\ \A k \in DOMAIN d1.exact \cup DOMAIN d2.exact : lookup(d1, k) = lookup(d2, k)
    /\ \A k \in DOMAIN d1.prefix \cup DOMAIN d2.prefix :
           lookup_prefix(d1, k) = lookup_prefix(d2, k)
    /\ \A k \in DOMAIN d1.abbrev \cup DOMAIN d2.abbrev :
           lookup_abbreviation(d1, k) = lookup_abbreviation(d2, k)

\* the entries of bucket key of d that were in the dictionary b already
OldEntries(d, b, key) ==
    SelectSeq(d.exact[key], LAMBDA c : <<key, c.word>> \in PairsOf(b))

RemoveAt(s, i) == SubSeq(s, 1, i - 1) \o SubSeq(s, i + 1, Len(s))

\* a + b on u32 exceeds 2^32 - 1
U32Overflows(a, b) == a[1] + b[1] + ((a[2] + b[2]) \div 65536) >= 65536

\* min(a + b, 2^32 - 1)
U32ClampedSum(a, b) ==
    IF U32Overflows(a, b) THEN << 65535, 65535 >>
    ELSE << a[1] + b[1] + ((a[2] + b[2]) \div 65536), (a[2] + b[2]) % 65536 >>

\* C16: boost(p, w, amount) sets the weight of (p, w) in exact to
\* min(old + amount, 2^32 - 1), never below the old weight, changes no other
\* entry, and re-sorts the bucket by weight only; boost by 0 and boost of a
\* pair that is not present leave every answer as it was.
C16_BoostSaturates ==
    (dictLog # <<>> /\ dictLog[Len(dictLog)].op = "boost") =>
        LET b       == dictLog[Len(dictLog)]
            present == /\ b.pinyin \in DOMAIN b.before.exact
                       /\ \E i \in 1..Len(b.before.exact[b.pinyin]) :
                              b.before.exact[b.pinyin][i].word = b.word
        IN  /\ dict.all = b.before.all
            /\ dict.prefix = b.before.prefix
            /\ dict.abbrev = b.before.abbrev
            /\ DOMAIN dict.exact = DOMAIN b.before.exact
            /\ \A k \in DOMAIN dict.exact \ {b.pinyin} :
                   dict.exact[k] = b.before.exact[k]
            /\ present =>
                   LET old == b.before.exact[b.pinyin]
                       new == dict.exact[b.pinyin]
                       i   == CHOOSE x \in 1..Len(old) :
                                  /\ old[x].word = b.word
                                  /\ \A y \in 1..(x - 1) : old[y].word # b.word
                   IN  /\ WeightDescending(new)
                       /\ \E j \in 1..Len(new) :
                              /\ new[j].word = b.word
                              /\ new[j].pinyin = old[i].pinyin
                              /\ new[j].weight = U32ClampedSum(old[i].weight, b.amount)
                              /\ U32Geq(new[j].weight, old[i].weight)
                              /\ RemoveAt(new, j) = RemoveAt(old, i)
            /\ (~present \/ b.amount = << 0, 0 >>) => SameAnswers(dict, b.before)

\* a boost that would pass 2^32 - 1 moved an entry to the front of its bucket
C16_SaturatedBoostReached ==
    /\ dictLog # <<>>
    /\ dictLog[Len(dictLog)].op = "boost"
    /\ dictLog[Len(dictLog)].pinyin \in DOMAIN dict.exact
    /\ LET b   == dictLog[Len(dictLog)]
           old == b.before.exact[b.pinyin]
           new == dict.exact[b.pinyin]
       IN  /\ Len(old) >= 2
           /\ old[1].word # b.word
           /\ new[1].word = b.word
           /\ new[1].weight = << 65535, 65535 >>
           /\ U32Overflows(old[2].weight, b.amount)

\* a key made of the letters a-z only
LettersOnly(key) == \A i \in 1..Len(key) : key[i] \in Range(ALPHABET)

RECURSIVE CleanKey(_)
\* a pinyin field with every u-umlaut written v and only the letters kept
CleanKey(r) ==
    IF r = <<>> THEN <<>>
    ELSE (IF Head(r) \in Range(ALPHABET) THEN <<Head(r)>>
          ELSE IF Head(r) \in {"U+00FC", "U+01DC", "U+01DA", "U+01D8", "U+01D6"}
          THEN <<"v">> ELSE <<>>) \o CleanKey(Tail(r))

\* the lines of a text that have a pinyin field and a word
UsableLines(text) ==
    {i \in 1..Len(text) : text[i].pinyin # <<>> /\ text[i].word # <<>>}

\* C17: every pinyin key under which a candidate is stored, in exact,
\* prefix, abbrev and the flat vector, is made of the letters a-z only, for
\* the entries loaded by from_text and for those added by merge_text;
\* u-umlauts are stored as v, and an entry whose pinyin is empty after
\* sanitization is not stored.
C17_KeysSanitized ==
    dictPc # "idle" =>
        /\ \A k \in DOMAIN dict.exact \cup DOMAIN dict.prefix \cup DOMAIN dict.abbrev :
               LettersOnly(k)
        /\ \A i \in 1..Len(dict.all) : LettersOnly(dict.all[i].pinyin)
        /\ \A i \in UsableLines(dictText) :
               CleanKey(dictText[i].pinyin) # <<>> =>
                   <<CleanKey(dictText[i].pinyin), dictText[i].word>> \in PairsOf(dict)
        /\ dictLog = <<>> =>
               Len(dict.all) =
                   Cardinality({i \in UsableLines(dictText) :
                                   CleanKey(dictText[i].pinyin) # <<>>})
        /\ \A n \in 1..Len(dictLog) :
               dictLog[n].op = "merge" =>
                   /\ ~dictLog[n].panicked
                   /\ \A i \in UsableLines(dictLog[n].text) :
                          (\E c \in 1..Len(dictLog[n].text[i].pinyin) :
                               dictLog[n].text[i].pinyin[c] = "U+00FC") =>
                              <<CleanKey(dictLog[n].text[i].pinyin),
                                dictLog[n].text[i].word>> \in PairsOf(dict)

\* the same law for what from_text loads, before any merge
C17_LoadedKeysSanitized ==
    dictLog = <<>> => C17_KeysSanitized

(***************************************************************************)
(* Properties of the history buffer.                                       *)
(***************************************************************************)
\* the non-empty strings pushed so far, in push order
PushedNonEmpty == SelectSeq(histLog, LAMBDA text : text # <<>>)

\* the last n elements of a sequence (all of it when it has fewer)
LastOf(s, n) == SubSeq(s, (IF Len(s) > n THEN Len(s) - n ELSE 0) + 1, Len(s))

\* C18: for every capacity N >= 0 and every sequence of pushes, each push
\* completes, the push of the empty string changes nothing, the buffer never
\* holds more than N entries, its entries are the most recent non-empty
\* strings pushed, oldest first, and context_string is their concatenation.
C18_BoundedFifo ==
    histPc # "idle" =>
        /\ histPc = "ok"
        /\ Len(hist.buf) <= hist.capacity
        /\ hist.buf = LastOf(PushedNonEmpty, hist.capacity)
        /\ context_string(hist.buf) = Concat(LastOf(PushedNonEmpty, hist.capacity))
        /\ push(hist, <<>>) = [h |-> hist, panicked |-> FALSE]

\* the same law for the capacities of one and more
C18_BoundedFifoFromOne ==
    hist.capacity >= 1 => C18_BoundedFifo

(***************************************************************************)
(* The predictor: fallbacks and constrained proposals.                     *)
(***************************************************************************)
\* the last call found the session or the vocabulary missing, or got an Err
\* from the model
CallFellBack ==
    /\ predLog.op # "none"
    /\ ~is_available(predLog.before) \/ predLog.failed

\* C19: when the model session or the vocabulary is unavailable, or a model
\* call fails, rerank returns its candidate list unchanged and predict returns
\* the empty list, and the predictor is left as it was before the call
C19_FallbackOnFailure ==
    CallFellBack =>
        /\ predLog.op = "rerank" => predLog.result = predLog.candidates
        /\ predLog.op = "predict" => predLog.result = <<>>
        /\ predictor = predLog.before

\* the same, but a predict of two syllables and more whose beam search failed
\* returns the leading dictionary words and word-graph paths
C19_FallbackOrWordList ==
    CallFellBack =>
        /\ predLog.op = "rerank" => predLog.result = predLog.candidates
        /\ (predLog.op = "predict" /\ ~(is_available(predLog.before) /\ predLog.multi))
               => predLog.result = <<>>
        /\ (predLog.op = "predict" /\ is_available(predLog.before) /\ predLog.multi)
               => IsPrefix(predLog.result, predLog.fallback)
        /\ predictor = predLog.before

\* a predict whose model calls all succeeded, after a call that failed
C19_SuccessAfterFailure ==
    /\ predLog.op = "predict" /\ predLog.after_failure
    /\ is_available(predLog.before) /\ ~predLog.failed
    /\ predLog.proposals # {}

\* a failed predict of several syllables that returned words all the same
C19_FailedPredictWithWords ==
    /\ predLog.op = "predict" /\ predLog.failed /\ predLog.multi
    /\ predLog.result # <<>>

\* the candidate ids of a token: none for a token without an entry
CandidateIds(vocab, token) ==
    IF token \in DOMAIN vocab.pinyin2char_ids THEN Range(vocab.pinyin2char_ids[token])
    ELSE {}

\* C20: every character the one-syllable scoring or the beam search proposes
\* for a token has its id among the candidate ids of that token, for tokens
\* with and without an entry in the candidate table
C20_ProposalsConstrained ==
    predLog.op = "predict" =>
        \A p \in predLog.proposals : p[2] \in CandidateIds(predLog.before.vocab[1], p[1])

\* the same for the tokens that have an entry
C20_ListedTokensConstrained ==
    predLog.op = "predict" =>
        \A p \in predLog.proposals :
            p[1] \in DOMAIN predLog.before.vocab[1].pinyin2char_ids
                => p[2] \in CandidateIds(predLog.before.vocab[1], p[1])

\* a beam search over a listed and an unlisted token that proposed for both
C20_BothKindsProposed ==
    /\ predLog.op = "predict" /\ predLog.multi
    /\ \E p \in predLog.proposals : p[1] = <<"a">>
    /\ \E p \in predLog.proposals : p[1] = <<"i">>


\* a buffer none of whose tokens is a syllable
NoSyllableSplit(pinyin) ==
    \A i \in 1..Len(split_pinyin_pub(pinyin)) : ~is_valid_syllable(split_pinyin_pub(pinyin)[i])

\* C21: for a buffer of two or more letters that are all initials and that
\* admits no syllable split, predict takes the abbreviation branch, not the
\* single-syllable or the beam-search branch
C21_InitialsTakeAbbreviationBranch ==
    (/\ predLog.op = "predict" /\ is_available(predLog.before)
     /\ is_abbrev(predLog.pinyin) /\ NoSyllableSplit(predLog.pinyin))
        => predLog.branch = "abbreviation"

\* every ready predict takes the single-syllable branch for one token, the
\* beam search for more, and no branch for the empty buffer
C21_BranchByTokenCount ==
    (predLog.op = "predict" /\ is_available(predLog.before)) =>
        predLog.branch = (IF predLog.pinyin = <<>> THEN "none"
                          ELSE IF Len(split_pinyin(predLog.pinyin)) = 1 THEN "single"
                          ELSE "beam")

(***************************************************************************)
(* The dictionary across restarts.                                         *)
(***************************************************************************)
\* the dictionary has the word under the key
Serves(d, pinyin, word) == \E c \in Range(lookup(d, pinyin)) : c.word = word

\* the dictionary the text corpus and the extra dictionaries make
CorpusDictionary == merge_extras(base_dictionary(files), runLog.extras).dict

\* C22: a word put into the AI cache during one run is returned by the
\* dictionary lookup for its pinyin after a restart, also when a dict.bin
\* written by an earlier start exists; the dictionary served after a start
\* is the one of the current text corpus
C22_CachedWordsSurviveRestart ==
    proc.pc = "running" =>
        /\ \A p \in runLog.earlier : Serves(proc.dict[1], p[1], p[2])
        /\ runLog.fresh => proc.dict[1] = CorpusDictionary

\* the same when the start found no readable dict.bin and the words were
\* appended to a dict.txt that ended with a newline
C22_FirstStartServesCorpus ==
    (proc.pc = "running" /\ runLog.fresh /\ runLog.starts = 1) =>
        proc.dict[1] = CorpusDictionary

\* a second start that serves a dictionary without a word cached in the first
C22_StaleDictionaryServed ==
    /\ proc.pc = "running" /\ runLog.starts = 2
    /\ \E p \in runLog.earlier : ~Serves(proc.dict[1], p[1], p[2])
    /\ files.txt # <<>>
    /\ \E p \in runLog.earlier :
         \E i \in 1..Len(files.txt[1].lines) :
            files.txt[1].lines[i].pinyin = p[1] /\ files.txt[1].lines[i].word = p[2]

(***************************************************************************)
(* Paging.                                                                 *)
(***************************************************************************)
\* the number of pages of the stored list
total_pages_of(s) == (Len(s.all_candidates) + PAGE_SIZE - 1) \div PAGE_SIZE

\* the slice of the stored list that starts at the page offset
PageSlice(s) ==
    SubSeq(s.all_candidates, s.page_offset + 1,
           Min2(s.page_offset + PAGE_SIZE, Len(s.all_candidates)))

\* C23: a shown view holds at most 9 candidates, the slice of the stored
\* list that starts at the page offset; it has a page counter exactly when
\* the list has more than one page, and then 1 <= current <= total; the
\* page-down key on the last page and the page-up key on the first page
\* change nothing
C23_PageIsSliceOfList ==
    view.visible =>
        /\ Len(view.cands) <= 9
        /\ view.cands = PageSlice(Ime)
        /\ view.page # <<>> <=> total_pages_of(Ime) > 1
        /\ view.page # <<>> =>
              /\ view.page[1].total = total_pages_of(Ime)
              /\ view.page[1].current = (page_offset \div PAGE_SIZE) + 1
              /\ 1 <= view.page[1].current
              /\ view.page[1].current <= view.page[1].total
        /\ (view.page = <<>> \/ view.page[1].current = view.page[1].total) =>
              /\ cb_process_key(Ime, 34, 0) = {Ime}
              /\ cb_process_key(Ime, 187, 0) = {Ime}
        /\ (view.page = <<>> \/ view.page[1].current = 1) =>
              /\ cb_process_key(Ime, 33, 0) = {Ime}
              /\ cb_process_key(Ime, 189, 0) = {Ime}

\* the third and last page is shown, after two page-downs: the learned
\* words and the 19 words of the plugins make more than two pages
C23_LastPageReached ==
    /\ view.visible
    /\ Len(all_candidates) > 19
    /\ view.page = << [current |-> 3, total |-> 3] >>
    /\ view.cands = SubSeq(all_candidates, 19, Len(all_candidates))
    /\ view.cands[Len(view.cands)] = <<"s">>

(***************************************************************************)
(* Determinism of the candidate pipeline.                                  *)
(***************************************************************************)
\* the candidate lists refresh_candidates can store in the present state
RefreshedLists == { s.all_candidates : s \in refresh_candidates(Ime, 0) }

\* the learned words of the buffer have pairwise different counts
CountsDiffer ==
    \A k1, k2 \in DOMAIN user_dict :
        (k1[1] = raw /\ k2[1] = raw /\ k1 # k2) => user_dict[k1] # user_dict[k2]

\* C24: from one state, dictionary, user store and model the candidate
\* pipeline produces one ordered candidate list, also when several learned
\* words of the buffer have equal counts
C24_PipelineDeterministic ==
    raw # <<>> => Cardinality(RefreshedLists) = 1

\* one list whenever no two learned words of the buffer have the same count;
\* with equal counts the lists differ only in the order of those words
C24_DeterministicUpToTies ==
    raw # <<>> =>
        /\ CountsDiffer => Cardinality(RefreshedLists) = 1
        /\ \A l1, l2 \in RefreshedLists :
              /\ Range(l1) = Range(l2)
              /\ \A i \in 1..Len(l1) :
                    l1[i] # l2[i] =>
                       /\ <<raw, l1[i]>> \in DOMAIN user_dict
                       /\ <<raw, l2[i]>> \in DOMAIN user_dict
                       /\ user_dict[<<raw, l1[i]>>] = user_dict[<<raw, l2[i]>>]

\* a buffer with two learned words of equal count, and two lists for it
C24_TiedCountsReached ==
    /\ raw # <<>> /\ ~CountsDiffer
    /\ Cardinality(RefreshedLists) = 2

(***************************************************************************)
(* The lists one keystroke sends to the view.                              *)
(***************************************************************************)
\* the number of lists credited to the keystroke on the path
UpdatesOf(key, path) ==
    IF \E u \in viewLog.by : u.key = key /\ u.path = path
    THEN (CHOOSE u \in viewLog.by : u.key = key /\ u.path = path).n
    ELSE 0

\* C25: a processed keystroke causes at most two candidate-list updates of
\* the view, at most one sent by its own thread and at most one sent by the
\* neural job dispatched for it
C25_AtMostTwoUpdatesPerKey ==
    /\ viewLog.pending = 0
    /\ \A key \in 1..nEvents :
          /\ UpdatesOf(key, "sync") <= 1
          /\ UpdatesOf(key, "async") <= 1
          /\ UpdatesOf(key, "sync") + UpdatesOf(key, "async") <= 2
    /\ \A u \in viewLog.by : u.key \in 1..nEvents /\ u.path \in {"sync", "async"}
    /\ \A w \in workers : UpdatesOf(w.key, "async") = 0

\* a keystroke whose thread and whose neural job have both updated the view
C25_BothUpdatesReached ==
    \E key \in 1..nEvents :
        /\ UpdatesOf(key, "sync") = 1
        /\ UpdatesOf(key, "async") = 1
        /\ applyLog.n >= 1

(***************************************************************************)
(* Enter.                                                                  *)
(***************************************************************************)
\* the step runs the thread of an Enter key
EnterProcessed(t) == t \in key_threads /\ t.vkey = 13 /\ t \notin key_threads'

\* the step is the hook receiving the key-down of Enter
EnterReceived == nEvents' = nEvents + 1 /\ hookLog'.vk = 13 /\ hookLog'.down

ToggledDisabled ==
    /\ plugLog.op = "toggle" /\ ~plugLog.enabled
    /\ plugin_position(plugin_sys[1], plugLog.name) # 0

\* C27: after load_dir and any toggles at most MAX_ACTIVE (5) plugins are
\* enabled; a toggle of a disabled plugin while 5 are enabled returns
\* SlotsFull and enables nothing
C27_AtMostMaxActive ==
    plugin_sys # <<>> =>
        /\ active_count(plugin_sys[1]) <= MAX_ACTIVE
        /\ (ToggledDisabled /\ plugLog.active = MAX_ACTIVE) =>
              /\ plugLog.result = "SlotsFull"
              /\ active_count(plugin_sys[1]) = MAX_ACTIVE

\* what toggle keeps: it enables only below MAX_ACTIVE plugins, and with
\* MAX_ACTIVE or more enabled it answers SlotsFull, or Denied when the user
\* refuses the authorization, and enables nothing; the first start of a
\* fresh installation enables nothing
C27_ToggleKeepsSlots ==
    plugin_sys # <<>> =>
        /\ (plugLog.op = "toggle" /\ plugLog.result = "Enabled") =>
              /\ plugLog.active < MAX_ACTIVE
              /\ active_count(plugin_sys[1]) = plugLog.active + 1
        /\ (ToggledDisabled /\ plugLog.active >= MAX_ACTIVE) =>
              /\ plugLog.result \in {"SlotsFull", "Denied"}
              /\ active_count(plugin_sys[1]) = plugLog.active
        /\ plugLog.starts = 1 => active_count(plugin_sys[1]) <= MAX_ACTIVE

\* six plugins enabled by load_dir at the second start
C27_SixEnabledReached ==
    /\ plugin_sys # <<>>
    /\ plugLog.op = "load_dir" /\ plugLog.starts = 2
    /\ active_count(plugin_sys[1]) = 6

(***************************************************************************)
(* The undo trace and the keys after a commit.                             *)
(***************************************************************************)
\* the step is the hook receiving a key-down other than backspace
OtherKeyDown == nEvents' = nEvents + 1 /\ hookLog'.down /\ hookLog'.vk # 8

\* C28: every key-down other than backspace, in either mode and Shift
\* included, leaves no undo trace, so no unlearn is invoked for a commit that
\* such a key has followed
C28_KeyDownClearsTrace ==
    /\ [][ OtherKeyDown => last_commit' = <<>> ]_vars
    /\ [](undoLog.unl # <<>> => ~undoLog.unl[1].other)

\* the same for the keys that reach the undo block of the hook: key-downs in
\* Chinese mode other than Shift
C28_ChineseKeyDownClearsTrace ==
    [][ (OtherKeyDown /\ chinese_mode /\ ~IsShift(hookLog'.vk)) =>
            last_commit' = <<>> /\ backspace_count' = 0 ]_vars

\* an unlearn invoked for a commit that a key other than backspace followed
C28_UnlearnAfterOtherKey ==
    /\ undoLog.unl # <<>>
    /\ undoLog.unl[1].other
    /\ undoLog.unl[1].py = undoLog.py /\ undoLog.unl[1].word = undoLog.word

(***************************************************************************)
(* The generation counter.                                                 *)
(***************************************************************************)
\* C29: the generation counter never decreases and no two jobs hold the
\* same generation, also when key-processing threads run the dispatch at
\* the same time
C29_GenerationsUnique ==
    /\ [][ai_generation' >= ai_generation]_vars
    /\ [](\A w1, w2 \in Jobs : w1.key # w2.key => w1.gen # w2.gen)

\* the same when each key-processing thread has finished before the next
\* one runs: the counter grows by one at a dispatch, and the job spawned
\* holds the new value, greater than that of every job alive
C29_OneThreadDispatch ==
    /\ [][ /\ ai_generation' \in {ai_generation, ai_generation + 1}
           /\ \A w \in workers' :
                 (\A v \in workers : v.key # w.key) =>
                     /\ w.gen = ai_generation' /\ w.gen = ai_generation + 1
                     /\ \A v \in workers : v.gen < w.gen ]_vars
    /\ [](\A w1, w2 \in Jobs : w1.key # w2.key => w1.gen # w2.gen)

\* two jobs of two keystrokes hold one generation
C29_SharedGenerationReached ==
    \E w1, w2 \in Jobs : w1.key # w2.key /\ w1.gen = w2.gen

(***************************************************************************)
(* Commits by index and the user store.                                    *)
(***************************************************************************)
\* the step commits by index
IndexCommitted == commitLog' # commitLog

C30_EveryIndexCommitLearns ==
    [][ (IndexCommitted /\ commitLog'[1].py # <<>>) =>
            user_dict' = learn(user_dict, commitLog'[1].py, commitLog'[1].word) ]_vars

\* a one-character word committed out of a two-syllable buffer is in the
\* store under the two syllables
C30_PartialCommitLearned ==
    /\ commitLog # <<>>
    /\ commitLog[1].raw # <<>>
    /\ Len(commitLog[1].word) < Len(commitLog[1].before)
    /\ <<commitLog[1].py, commitLog[1].word>> \in DOMAIN user_dict
    /\ <<commitLog[1].py, commitLog[1].word>> \notin DOMAIN StoreFile

(***************************************************************************)
(* The users of the model session.                                         *)
(***************************************************************************)
\* the step is a key-processing thread running the synchronous predict of
\* a one-syllable buffer
SyncPredictRuns ==
    /\ ai_available
    /\ key_threads' # key_threads /\ nEvents' = nEvents
    /\ mergeLog' # mergeLog /\ mergeLog'[1].path = "sync"
    /\ Len(syllables') = 1

\* C31: the predictor is used by one thread at a time: no two neural jobs
\* are inside predict together, and no key-processing thread runs its
\* synchronous predict while a job is inside predict
C31_OneSessionUser ==
    /\ [](Cardinality(Predicting) <= 1)
    /\ [][SyncPredictRuns => Predicting = {}]_vars

\* two jobs of two keystrokes are inside predict
C31_TwoJobsPredicting ==
    \E w1, w2 \in Predicting : w1.key # w2.key

(***************************************************************************)
(* C32                                                                     *)
(***************************************************************************)
\* the words PinyinEngine::get_candidates returns for the raw buffer p
SearchedWords(p) ==
    Range(get_candidates([raw |-> p, syllables |-> split_pinyin(p)]))

\* C32: every (p, w) cache_ai_word inserted into the side map is among the
\* candidates the search returns for the raw buffer p, and the side map
\* holds no (p, w) twice
C32_CachedWordIsCandidate ==
    /\ \A i \in 1..Len(ai_cache) : ai_cache[i].word \in SearchedWords(ai_cache[i].pinyin)
    /\ \A i, j \in 1..Len(ai_cache) :
           (ai_cache[i].pinyin = ai_cache[j].pinyin /\ ai_cache[i].word = ai_cache[j].word)
               => i = j

\* C32, the part that holds: the side map never holds the same (p, w) twice
C32_CacheHasNoDuplicates ==
    \A i, j \in 1..Len(ai_cache) :
        (ai_cache[i].pinyin = ai_cache[j].pinyin /\ ai_cache[i].word = ai_cache[j].word)
            => i = j

\* C32: the list shown for the buffer p lacks a word the side map holds for p
C32_CachedWordNotOffered ==
    /\ raw # <<>> /\ view.visible /\ key_threads = {} /\ workers = {}
    /\ \E i \in 1..Len(ai_cache) :
           /\ ai_cache[i].pinyin = raw
           /\ \A k \in 1..Len(all_candidates) : all_candidates[k] # ai_cache[i].word

(***************************************************************************)
(* C33                                                                     *)
(***************************************************************************)
\* C33: after any sequence of push, pop, clear and consume_syllables the raw
\* buffer holds only the letters a-z, the syllables are the segmentation of
\* the raw buffer, their concatenation is the raw buffer, and the syllables
\* are empty exactly when the raw buffer is
C33_EngineInvariant ==
    /\ \A i \in 1..Len(engine.raw) : is_ascii_lowercase(engine.raw[i])
    /\ engine.syllables = split_pinyin(engine.raw)
    /\ Concat(engine.syllables) = engine.raw
    /\ (engine.syllables = <<>>) <=> (engine.raw = <<>>)

\* C33: consume_syllables took one syllable of three and left the other two
C33_ConsumedPrefix ==
    /\ engLog.op = "consume_syllables" /\ engLog.n = 1
    /\ Len(engLog.before.syllables) = 3
    /\ Len(engine.syllables) = 2
    /\ engLog.before.raw = engLog.before.syllables[1] \o engine.raw

(***************************************************************************)
(* C34                                                                     *)
(***************************************************************************)
RECURSIVE Coverings(_, _, _, _)
\* every covering of the syllables from position i by dictionary words, with
\* the score of the words alone (plain) and with the jieba bonus (boosted)
Coverings(syls, d, jieba, i) ==
    IF i > Len(syls) THEN { [path |-> <<>>, plain |-> 0, boosted |-> 0] }
    ELSE UNION { UNION { { [path    |-> <<e.word>> \o rest.path,
                            plain   |-> as_i64(e.weight)
                                        + (IF L >= 2 THEN L * 1000 ELSE 0) + rest.plain,
                            boosted |-> as_i64(e.weight)
                                        + (IF L >= 2 THEN L * 1000 ELSE 0)
                                        + (jieba_word_score(jieba, e.word)
                                             \div (IF L >= 2 THEN 1 ELSE 4))
                                        + rest.boosted] :
                            rest \in Coverings(syls, d, jieba, i + L) } :
                        e \in Range(lookup(d, Concat(SubSeq(syls, i, i + L - 1)))) } :
                 L \in 1..(Len(syls) - i + 1) }

\* the coverings of the call in graphLog
CallCoverings ==
    IF graphLog.words_dict = <<>> THEN {}
    ELSE Coverings(graphLog.syllables, graphLog.words_dict[1], graphLog.jieba, 1)

\* the plain score of a returned path
PlainOf(cov, path) == SetMax({c.plain : c \in {x \in cov : x.path = path}})

NoTextTwice(out) == \A i, j \in 1..Len(out) : out[i] = out[j] => i = j

\* C34: word_graph_segment returns its sentences in descending order of the
\* sum of weight (one syllable) and weight + L*1000 (L >= 2 syllables) over
\* the words of the path; the first is a covering of maximum such score; no
\* text is returned twice; nothing is returned when no covering exists
C34_SentencesByPlainScore ==
    graphLog.pc = "done" =>
        /\ \A k \in 1..(Len(graphLog.paths) - 1) :
               PlainOf(CallCoverings, graphLog.paths[k].path)
                   >= PlainOf(CallCoverings, graphLog.paths[k + 1].path)
        /\ graphLog.paths # <<>> =>
               \A c \in CallCoverings :
                   PlainOf(CallCoverings, graphLog.paths[1].path) >= c.plain
        /\ NoTextTwice(graphLog.out)
        /\ (CallCoverings = {} \/ graphLog.syllables = <<>>) => graphLog.out = <<>>

\* C34, with the bonus jieba_word_score adds to a word: the order is
\* descending in the score with the bonus, the first sentence is a covering
\* of maximum such score, no text is returned twice, and nothing is
\* returned when no covering exists
C34_SentencesByBoostedScore ==
    graphLog.pc = "done" =>
        /\ \A k \in 1..(Len(graphLog.paths) - 1) :
               graphLog.paths[k].score >= graphLog.paths[k + 1].score
        /\ graphLog.paths # <<>> =>
               \A c \in CallCoverings : graphLog.paths[1].score >= c.boosted
        /\ \A k \in 1..Len(graphLog.paths) :
               \E c \in CallCoverings : /\ c.path = graphLog.paths[k].path
                                         /\ c.boosted = graphLog.paths[k].score
        /\ NoTextTwice(graphLog.out)
        /\ (CallCoverings = {} \/ graphLog.syllables = <<>>) => graphLog.out = <<>>
        /\ (CallCoverings # {} /\ graphLog.syllables # <<>>) => graphLog.out # <<>>

\* C34: a word jieba keeps whole is returned ahead of a heavier word
C34_BonusDecidesOrder ==
    /\ graphLog.pc = "done" /\ Len(graphLog.paths) >= 2
    /\ PlainOf(CallCoverings, graphLog.paths[1].path)
           < PlainOf(CallCoverings, graphLog.paths[2].path)

(***************************************************************************)
(* C35                                                                     *)
(***************************************************************************)
\* the position Space or a digit selects, counted from 1
SelectedPosition(vkey) == IF vkey = 32 THEN 1 ELSE vkey - 48

\* the step is the thread of Space or of a digit committing a candidate
CommitsCandidate(t) ==
    /\ t \in key_threads /\ t \notin key_threads'
    /\ t.vkey \in {32} \cup (49..57)
    /\ IndexCommitted

\* C35: whenever Space or a digit commits a candidate, the text injected is
\* the candidate the view displayed last at that position, also after a
\* neural result replaced the list displayed and after a page change
C35_CommitsWhatIsShown ==
    [][ \A t \in key_threads :
           CommitsCandidate(t) =>
               /\ SelectedPosition(t.vkey) <= Len(view.cands)
               /\ injected' = Append(injected, view.cands[SelectedPosition(t.vkey)]) ]_vars

\* C35, as the code has it: the text injected is the entry of
\* current_candidates at that position
C35_CommitsFromCurrentCandidates ==
    [][ \A t \in key_threads :
           CommitsCandidate(t) =>
               /\ SelectedPosition(t.vkey) <= Len(current_candidates)
               /\ injected' = Append(injected, current_candidates[SelectedPosition(t.vkey)]) ]_vars

\* C35: after a neural result was displayed, Space committed a word other
\* than the first one displayed
C35_CommittedOtherThanShown ==
    /\ hookLog.vk = 32 /\ hookLog.down /\ hookLog.eaten
    /\ key_threads = {} /\ workers = {}
    /\ applyLog.n >= 1
    /\ commitLog # <<>> /\ injected # <<>>
    /\ injected[Len(injected)] = commitLog[1].word
    /\ raw = <<>> /\ view.cands # <<>>
    /\ view.cands[1] # commitLog[1].word

(***************************************************************************)
(* C36                                                                     *)
(***************************************************************************)
\* the step is the key-processing thread t applying its key
KeyApplied(t) == t \in key_threads /\ t \notin key_threads'

\* C36: the eaten keys are applied in the order the hook received them: the
\* thread that applies its key is the one of the earliest key not yet applied
C36_KeysAppliedInOrder ==
    [][ \A t \in key_threads :
           KeyApplied(t) => \A u \in key_threads : t.id <= u.id ]_vars

\* C36: Space, received third, selected from the buffer "a" of the first key,
\* and the letter received second was appended after it
C36_SpaceOvertookLetter ==
    /\ nEvents = 3 /\ key_threads = {}
    /\ hookLog.vk = 32 /\ hookLog.down /\ hookLog.eaten
    /\ commitLog # <<>> /\ commitLog[1].py = <<"a">>
    /\ Len(injected) = 1
    /\ raw = <<"a">>

(***************************************************************************)
(* C37                                                                     *)
(***************************************************************************)
\* Backspace, Space, Escape, Enter and the digits 1 to 9
EditingKeys == {8, 32, 27, 13} \cup (49..57)

LetterKeys == 65..90

\* the step is the hook passing an editing key through in Chinese mode
EditingKeyPassed ==
    /\ nEvents' = nEvents + 1
    /\ hookLog'.down /\ hookLog'.chinese /\ ~hookLog'.eaten
    /\ hookLog'.vk \in EditingKeys

\* C37: the decision of the hook agrees with what the key does when it is
\* processed: an eaten editing key finds a non-empty buffer, and no editing
\* key is passed through while an eaten letter is still to be appended
C37_EatDecisionAgrees ==
    [][ /\ \A t \in key_threads :
              (KeyApplied(t) /\ t.vkey \in EditingKeys) => raw # <<>>
        /\ EditingKeyPassed => \A t \in key_threads : t.vkey \notin LetterKeys ]_vars

\* C37: Space was passed to the application while the thread of the letter
\* received before it had not run
C37_SpacePassedBeforeLetter ==
    /\ hookLog.vk = 32 /\ hookLog.down /\ hookLog.chinese /\ ~hookLog.eaten
    /\ raw = <<>>
    /\ \E t \in key_threads : t.vkey = 65 /\ t.id < nEvents

(***************************************************************************)
(* C38                                                                     *)
(***************************************************************************)
\* C38: in every reachable state in English mode the raw buffer is empty and
\* the view is hidden, also when key threads or neural jobs started in
\* Chinese mode finish after the toggle
C38_EnglishModeIsIdle ==
    ~chinese_mode => (raw = <<>> /\ ~view.visible)

\* C38: the thread of a letter eaten in Chinese mode ran after the toggle:
\* English mode with the letter in the buffer and the view shown
C38_LetterAppendedInEnglish ==
    /\ ~chinese_mode /\ key_threads = {}
    /\ raw = <<"a">> /\ view.visible

\* C38: a neural job started in Chinese mode displayed its list after the
\* toggle had emptied the buffer
C38_JobShowedViewInEnglish ==
    /\ ~chinese_mode /\ key_threads = {} /\ workers = {}
    /\ raw = <<>> /\ view.visible

(***************************************************************************)
(* C39                                                                     *)
(***************************************************************************)
\* the step is a refresh whose merge of the three sources is empty
RefreshedEmpty ==
    /\ mergeLog' # mergeLog
    /\ mergeLog'[1].path = "sync" /\ mergeLog'[1].merged = <<>>
    /\ raw' = mergeLog'[1].raw

\* C39: Space and the digits commit only a candidate computed for the
\* buffer being committed, and a refresh that finds no candidate for the
\* buffer leaves the stored list and the current page empty
C39_NoStaleCandidates ==
    [][ /\ \A t \in key_threads : CommitsCandidate(t) => view.raw = raw
        /\ RefreshedEmpty => (all_candidates' = <<>> /\ current_candidates' = <<>>) ]_vars

\* C39, what the code guarantees: a refresh that finds no candidate hides
\* the view and leaves the stored list, the page and the offset as they were
C39_EmptyRefreshKeepsLists ==
    [][ (RefreshedEmpty /\ ~IndexCommitted) =>
           /\ ~view'.visible
           /\ UNCHANGED << all_candidates, current_candidates, page_offset >> ]_vars

\* C39: Space committed a word out of a buffer for which the candidate
\* search finds nothing: the word was computed for the buffer "n"
C39_StaleCandidateCommitted ==
    /\ hookLog.vk = 32 /\ hookLog.down /\ hookLog.eaten /\ key_threads = {}
    /\ commitLog # <<>> /\ commitLog[1].py = <<"n", "n">>
    /\ SearchedWords(commitLog[1].py) = {}
    /\ injected # <<>> /\ injected[Len(injected)] = commitLog[1].word

(***************************************************************************)
(* C40                                                                     *)
(***************************************************************************)
\* the weights an answer reports for the pair (p, w)
ReportedWeights(cands, p, w) ==
    {cands[i].weight : i \in {j \in 1..Len(cands) : cands[j].pinyin = p /\ cands[j].word = w}}

\* wherever lookup_prefix or lookup_abbreviation answers with the pair
\* (p, w), it reports the weights lookup reports for it
AgreeOnPair(d, p, w) ==
    /\ \A k \in DOMAIN d.prefix :
           ReportedWeights(lookup_prefix(d, k), p, w)
               \in { {}, ReportedWeights(lookup(d, p), p, w) }
    /\ \A k \in DOMAIN d.abbrev :
           ReportedWeights(lookup_abbreviation(d, k), p, w)
               \in { {}, ReportedWeights(lookup(d, p), p, w) }

OneWeightPerPair(d) == \A pr \in PairsOf(d) : AgreeOnPair(d, pr[1], pr[2])

\* C40: after any sequence of boost and merge_text calls, lookup,
\* lookup_prefix and lookup_abbreviation report the same weight for every
\* (pinyin, word) pair
C40_LookupsAgreeOnWeight ==
    dictPc # "idle" => OneWeightPerPair(dict)

\* C40, what the code guarantees: a boost changes the weight lookup reports
\* and leaves the weights lookup_prefix and lookup_abbreviation report as
\* they were
C40_BoostLeavesIndexedWeights ==
    (dictLog # <<>> /\ dictLog[Len(dictLog)].op = "boost") =>
        /\ \A k \in DOMAIN dict.prefix :
               lookup_prefix(dict, k) = lookup_prefix(dictLog[Len(dictLog)].before, k)
        /\ \A k \in DOMAIN dict.abbrev :
               lookup_abbreviation(dict, k)
                   = lookup_abbreviation(dictLog[Len(dictLog)].before, k)

\* C40: after one boost of a pair that all three lookups agreed on, lookup
\* reports the raised weight and lookup_prefix the old one
C40_BoostedPairDisagrees ==
    /\ Len(dictLog) = 1 /\ dictLog[1].op = "boost"
    /\ OneWeightPerPair(dictLog[1].before)
    /\ <<dictLog[1].pinyin, dictLog[1].word>> \in PairsOf(dict)
    /\ ~AgreeOnPair(dict, dictLog[1].pinyin, dictLog[1].word)
    /\ ReportedWeights(lookup(dict, dictLog[1].pinyin), dictLog[1].pinyin, dictLog[1].word)
           # ReportedWeights(lookup(dictLog[1].before, dictLog[1].pinyin),
                             dictLog[1].pinyin, dictLog[1].word)
=============================================================================
